---- MODULE Spec2Model ----
(***************************************************************************)
(* A model of the my-zkp streaming prover / verifier pipeline and of its   *)
(* versioned proof container.                                              *)
(*                                                                         *)
(* The command line prover (src/src/prover.rs), the command line verifier  *)
(* (src/src/verifier.rs) and the /v1/verify handler                        *)
(* (src/src/bin/tinyzkp_api.rs) are translated from their code.  The core  *)
(* library they call (scheduler, transcript, pcs, stream, the Proof type   *)
(* and its canonical serialization) is modelled from spec.md; each such    *)
(* definition says so in its comment.                                      *)
(*                                                                         *)
(* Widths are scaled down: one model byte stands for every fixed-width     *)
(* scalar of the payload (u64, u32, a 32-byte field or group element, a    *)
(* 32-byte digest); the ten container header bytes are kept one for one.   *)
(***************************************************************************)
EXTENDS Integers, Sequences, FiniteSets, TLC

(***************************************************************************)
(* Bounds of the model.                                                    *)
(***************************************************************************)
MaxRows == 2
MaxK == 2
MaxBlk == 2
MaxCalls == 2
MaxLen == 2

\* hosted service: keys a user can hold over time, calendar months, requests
MaxKeys == 2

MaxMonths == 2

MaxReqs == 2
MaxCrit == 2

(***************************************************************************)
(* The scalar field F, scaled down to the integers modulo FieldP.  Group   *)
(* elements are represented by their discrete logarithm, so G1 is F too.   *)
(***************************************************************************)
FieldP == 5

F == 0 .. (FieldP - 1)

\* Structured reference strings that can be loaded.  An SRS is known by the
\* secret it was derived from.
SrsIds == {1, 2}

Tau(s) == s + 1

srs_g1_digest(s) == 10 + s

srs_g2_digest(s) == 20 + s

(***************************************************************************)
(* Container constants (prover.rs 30-31, verifier.rs 36-37).               *)
(***************************************************************************)
FILE_MAGIC == <<83, 83, 90, 75, 80, 118, 50, 0>>

FILE_VERSION == 2

FILE_VERSION_SUPPORTED == 2

\* The two bytes of a u16, low byte first.
to_le_bytes(v) == <<v % 256, v \div 256>>

to_be_bytes(v) == <<v \div 256, v % 256>>

from_be_bytes(b) == b[1] * 256 + b[2]

(***************************************************************************)
(* Canonical compressed serialization of Proof (spec.md section 6).        *)
(* Order: header fields, wire_comms, z_comm, q_comm, eval_points, evals,   *)
(* opening_proofs.  A sequence is length-prefixed, an option is a tag byte *)
(* followed by the value when present.  z_comm is a sequence of length 0   *)
(* or 1.                                                                   *)
(***************************************************************************)
basis_tag(b) == IF b = "Coefficient" THEN 0 ELSE 1

basis_of_tag(t) == IF t = 0 THEN "Coefficient" ELSE "Evaluation"

SerVec(v) == <<Len(v)>> \o v

SerOpt(o) == IF o = <<>> THEN <<0>> ELSE <<1>> \o o

SerHeader(h) ==
    << h.domain_n, h.domain_omega, h.zh_c, h.k, basis_tag(h.basis_wires),
       h.srs_g1_digest, h.srs_g2_digest >>

serialize_compressed(p) ==
    SerHeader(p.header) \o SerVec(p.wire_comms) \o SerOpt(p.z_comm)
        \o <<p.q_comm>> \o SerVec(p.eval_points) \o SerVec(p.evals)
        \o SerVec(p.opening_proofs)

\* A field or group element is canonical when it is reduced.
Canonical(v) == \A i \in 1 .. Len(v) : v[i] < FieldP

DeFail == [ok |-> FALSE, val |-> <<>>, next |-> 0]

\* a reader that takes what is left when a vector runs past the end
DeVec_short(bs, pos) ==
    IF pos > Len(bs) THEN [ok |-> TRUE, val |-> <<>>, next |-> pos]
    ELSE IF pos + bs[pos] > Len(bs)
         THEN [ok |-> TRUE, val |-> SubSeq(bs, pos + 1, Len(bs)), next |-> Len(bs) + 1]
    ELSE IF ~Canonical(SubSeq(bs, pos + 1, pos + bs[pos])) THEN DeFail
    ELSE [ok |-> TRUE, val |-> SubSeq(bs, pos + 1, pos + bs[pos]),
          next |-> pos + bs[pos] + 1]

DeVec(bs, pos) ==
    IF pos > Len(bs) THEN DeFail
    ELSE IF pos + bs[pos] > Len(bs) THEN DeFail
    ELSE IF ~Canonical(SubSeq(bs, pos + 1, pos + bs[pos])) THEN DeFail
    ELSE [ok |-> TRUE, val |-> SubSeq(bs, pos + 1, pos + bs[pos]),
          next |-> pos + bs[pos] + 1]

DeOpt(bs, pos) ==
    IF pos > Len(bs) THEN DeFail
    ELSE IF bs[pos] = 0 THEN [ok |-> TRUE, val |-> <<>>, next |-> pos + 1]
    ELSE IF bs[pos] # 1 THEN DeFail
    ELSE IF pos + 1 > Len(bs) THEN DeFail
    ELSE IF bs[pos + 1] >= FieldP THEN DeFail
    ELSE [ok |-> TRUE, val |-> <<bs[pos + 1]>>, next |-> pos + 2]

DeOne(bs, pos) ==
    IF pos > Len(bs) THEN DeFail
    ELSE IF bs[pos] >= FieldP THEN DeFail
    ELSE [ok |-> TRUE, val |-> <<bs[pos]>>, next |-> pos + 1]

DeHeader(bs) ==
    IF Len(bs) < 7 THEN DeFail
    ELSE IF bs[2] >= FieldP \/ bs[3] >= FieldP \/ bs[5] > 1 THEN DeFail
    ELSE [ok |-> TRUE,
          val |-> [domain_n |-> bs[1], domain_omega |-> bs[2], zh_c |-> bs[3],
                   k |-> bs[4], basis_wires |-> basis_of_tag(bs[5]),
                   srs_g1_digest |-> bs[6], srs_g2_digest |-> bs[7]],
          next |-> 8]

NoProof == [ok |-> FALSE]

\* Bytes left after the proof are not looked at: the callers deserialize from
\* a slice and drop it.
deserialize_compressed(bs) ==
    LET h == DeHeader(bs) IN
    IF ~h.ok THEN NoProof ELSE
    LET w == DeVec(bs, h.next) IN
    IF ~w.ok THEN NoProof ELSE
    LET z == DeOpt(bs, w.next) IN
    IF ~z.ok THEN NoProof ELSE
    LET q == DeOne(bs, z.next) IN
    IF ~q.ok THEN NoProof ELSE
    LET zs == DeVec(bs, q.next) IN
    IF ~zs.ok THEN NoProof ELSE
    LET ev == DeVec(bs, zs.next) IN
    IF ~ev.ok THEN NoProof ELSE
    LET op == DeVec(bs, ev.next) IN
    IF ~op.ok THEN NoProof ELSE
    [ok |-> TRUE,
     proof |-> [header |-> h.val, wire_comms |-> w.val, z_comm |-> z.val,
                q_comm |-> q.val[1], eval_points |-> zs.val,
                evals |-> ev.val, opening_proofs |-> op.val]]

(***************************************************************************)
(* Machine integers: i64 and usize are scaled down to IntBits bits.        *)
(***************************************************************************)
IntBits == 30

I64_MAX == 2 ^ (IntBits - 1) - 1

I64_MIN == 0 - 2 ^ (IntBits - 1)

USIZE_MAX == 2 ^ IntBits - 1

(***************************************************************************)
(* Domain helpers of the command line prover (prover.rs 48-70, 146-163).   *)
(***************************************************************************)
RECURSIVE BitOr(_, _)
BitOr(a, b) ==
    IF a = 0 THEN b
    ELSE IF b = 0 THEN a
    ELSE (IF a % 2 = 1 \/ b % 2 = 1 THEN 1 ELSE 0) + 2 * BitOr(a \div 2, b \div 2)

\* n >> s; every value of the model is below 2^31, so a shift by 31 or more
\* leaves nothing.
Shr(n, s) == IF s >= 31 THEN 0 ELSE n \div (2 ^ s)

\* n |= n >> s
Smear(n, s) == BitOr(n, Shr(n, s))

\* n - 1 with every bit below its highest set bit set
smeared(n) == Smear(Smear(Smear(Smear(Smear(Smear(n - 1, 1), 2), 4), 8), 16), 32)

\* the last line, n + 1, wraps around in a build without overflow checks
next_power_of_two(n) ==
    IF n = 0 THEN 1
    ELSE (smeared(n) + 1) % (2 ^ IntBits)

RECURSIVE pow_loop(_, _, _)
\* while exp > 0 { if exp & 1 == 1 { acc *= base } base = base^2; exp >>= 1 }
pow_loop(acc, base, exp) ==
    IF exp = 0 THEN acc
    ELSE pow_loop(IF exp % 2 = 1 THEN (acc * base) % FieldP ELSE acc,
                  (base * base) % FieldP, exp \div 2)

pow_u64(base, exp) == pow_loop(1 % FieldP, base % FieldP, exp)

validate_domain_params(n, omega, zh_c) ==
    IF n = 0 THEN "InvalidDomain"
    ELSE IF zh_c % FieldP = 0 THEN "InvalidDomain"
    ELSE IF pow_u64(omega, n) # 1 THEN "InvalidDomain"
    ELSE IF n >= 2 /\ pow_u64(omega, n \div 2) = 1 THEN "InvalidDomain"
    ELSE "Ok"

\* The field's root-of-unity oracle (spec.md 4.1): an element of exact order n,
\* or 0 when the field has none.
RootCandidates(n) ==
    {w \in 1 .. (FieldP - 1) :
        pow_u64(w, n) = 1 /\ (n >= 2 => pow_u64(w, n \div 2) # 1)}

get_root_of_unity(n) ==
    IF RootCandidates(n) = {} THEN 0
    ELSE CHOOSE w \in RootCandidates(n) : \A u \in RootCandidates(n) : w <= u

(***************************************************************************)
(* The deterministic witness of the command line prover (prover.rs         *)
(* 279-288): register m of row i holds (i + 1)^(m + 1).                    *)
(***************************************************************************)
witness_reg(i, m) == pow_u64(i + 1, m + 1)

witness_rows(n_rows, k_regs) ==
    [i \in 1 .. n_rows |-> [m \in 1 .. k_regs |-> witness_reg(i - 1, m - 1)]]

(***************************************************************************)
(* Witness restreamer (spec.md 4.4): a scan restarts at row 0 and delivers *)
(* blocks of at most b rows in increasing row order.                       *)
(***************************************************************************)
Min(a, b) == IF a < b THEN a ELSE b

\* A scan that goes on from where the previous one stopped.
rs_resume(pos) == pos

\* Where a new scan starts, given where the previous one stopped.
rs_restart(pos) == 0

rs_block(src, pos, b) == SubSeq(src, pos + 1, Min(pos + b, Len(src)))

RECURSIVE rs_scan_from(_, _, _)
rs_scan_from(src, pos, b) ==
    IF pos >= Len(src) THEN <<>>
    ELSE rs_block(src, pos, b) \o rs_scan_from(src, Min(pos + b, Len(src)), b)

\* for_each_block: every row the callback sees, in order of delivery.
for_each_block(src, pos, b) == rs_scan_from(src, rs_restart(pos), b)

(***************************************************************************)
(* Polynomial commitment scheme (spec.md 4.2), in the exponent: a          *)
(* polynomial is its coefficient sequence, commit is its value at the SRS  *)
(* secret, an opening at z is the value at the secret of                   *)
(* (f(X) - f(z)) / (X - z), and the pairing check is                       *)
(* proof * (tau - z) = commit - value.                                     *)
(***************************************************************************)
RECURSIVE PolyEval(_, _)
PolyEval(c, x) ==
    IF c = <<>> THEN 0 ELSE (c[1] + x * PolyEval(Tail(c), x)) % FieldP

RECURSIVE SynDiv(_, _)
\* Synthetic division by (X - z): element 1 is the remainder f(z), the rest
\* are the coefficients of the quotient.
SynDiv(c, z) ==
    IF Len(c) = 1 THEN <<c[1] % FieldP>>
    ELSE LET rest == SynDiv(Tail(c), z)
         IN  <<(c[1] + z * rest[1]) % FieldP>> \o rest

pcs_commit(srs, poly) == PolyEval(poly, Tau(srs))

pcs_open(srs, poly, z) ==
    [value |-> PolyEval(poly, z), proof |-> PolyEval(Tail(SynDiv(poly, z)), Tau(srs))]

pcs_verify(srs_g2, commit, z, value, proof) ==
    (proof * (Tau(srs_g2) + FieldP - (z % FieldP)) + value) % FieldP = commit % FieldP

(***************************************************************************)
(* Fiat-Shamir transcript (spec.md 4.3): a running hash and the ordered    *)
(* list of what was absorbed and squeezed.                                 *)
(***************************************************************************)
Mix(h, x) == (3 * h + x + 1) % FieldP

NewTranscript == [h |-> 0, log |-> <<>>]

RECURSIVE MixAll(_, _)
MixAll(h, xs) == IF xs = <<>> THEN h ELSE MixAll(Mix(h, xs[1]), Tail(xs))

absorb(tr, label, xs) == [h |-> MixAll(tr.h, xs), log |-> Append(tr.log, label)]

challenge(tr) == Mix(tr.h, 0)

squeeze(tr, label) == [h |-> Mix(Mix(tr.h, 0), 1), log |-> Append(tr.log, label)]

\* Items 1 and 2 of the absorb order: labels and domain digest, k, then the
\* SRS digests and the wires basis tag.
absorb_public(tr, h) ==
    absorb(absorb(tr, "domain", <<h.domain_n, h.domain_omega, h.zh_c, h.k>>),
           "srs", <<h.srs_g1_digest, h.srs_g2_digest, basis_tag(h.basis_wires)>>)

(***************************************************************************)
(* Polynomials the prover builds from one pass over the witness            *)
(* (spec.md 4.5).  The algebra of the permutation product and of the       *)
(* quotient is abstracted to a running product and a linear combination    *)
(* that depend on the same inputs: the rows of the pass and the challenges *)
(* squeezed before it.                                                     *)
(***************************************************************************)
RECURSIVE SumSeq(_)
SumSeq(xs) == IF xs = <<>> THEN 0 ELSE xs[1] + SumSeq(Tail(xs))

RowSumAt(rows, i) == IF i <= Len(rows) THEN SumSeq(rows[i]) ELSE 0

\* Column j of the pass, zero-padded to the domain size n.
wire_poly(rows, j, n) ==
    [i \in 1 .. n |-> IF i <= Len(rows) THEN rows[i][j] ELSE 0]

RECURSIVE ZAt(_, _, _, _)
ZAt(rows, i, beta, gamma) ==
    IF i = 1 THEN 1
    ELSE (ZAt(rows, i - 1, beta, gamma)
            * (beta + gamma * (i - 1) + RowSumAt(rows, i - 1))) % FieldP

z_poly(rows, n, beta, gamma) == [i \in 1 .. n |-> ZAt(rows, i, beta, gamma)]

q_poly(rows, n, alpha, zp) ==
    [i \in 1 .. n |->
        (alpha * (i + RowSumAt(rows, i)) + (IF zp = <<>> THEN 0 ELSE zp[i])) % FieldP]

(***************************************************************************)
(* State.                                                                  *)
(***************************************************************************)
VARIABLES
    zeta_shift,   \* the build has the zeta-shift feature
    p_in,         \* inputs of the prove calls: rows, k, b_blk, zh_c, basis, perm
    p_pc,         \* position of the command line prover in main
    p_err,        \* why the prove call failed
    phase,        \* phase of the scheduler's prover
    tr,           \* the prover's transcript
    pw,           \* what the prover has committed and opened so far
    rs_pos,       \* the restreamer's cursor: rows delivered by the last scan
    payload,      \* the serialized proof held by main
    file,         \* the proof file: <<"absent">> or <<"bytes", content>>
    calls,        \* prove calls started
    outs,         \* the containers written by the completed prove calls
    tampered,     \* the proof file was changed by someone else
    io_proof,     \* the proof whose container is under test
    v_cfg,        \* what the verifier was configured with: [basis, zh_c]
    v_entry,      \* verify entry point: "cli" or "api"
    v_srs,        \* the SRS the verifying process loaded: [g1, g2]
    v_pc,         \* position of the verifier
    v_buf,        \* the container bytes the verifier was given
    v_proof,      \* the parsed proof
    v_tr,         \* the verifier's transcript
    v_ch,         \* the challenges the verifier squeezed
    v_hist,       \* the checks the verifier has passed, in order
    v_reason,     \* why the verifier rejected
    s_src,        \* restreamer under test: the witness source
    s_b,          \* its block size
    s_pos,        \* its cursor
    s_state,      \* "idle", "scanning"
    s_cur,        \* rows delivered by the scan in progress
    s_blocks,     \* lengths of the blocks delivered by the scan in progress
    s_done,       \* the completed scans: their rows and their blocks
    s_abandons,   \* scans dropped part-way
    r_entry,      \* witness input of a prove call: "csv" or "json"
    r_rows,       \* its rows, each a sequence of tokens
    r_k,          \* the register count the rows are read against
    r_pos,        \* rows read so far
    r_pc,         \* "off", "reading", "read", "returned", "panicked"
    r_out,        \* "none", "proof", or the error returned
    a_verdicts,   \* earlier verifications of the same container: [cfg, verdict]
    d_for,        \* what `authz prove` made its proof for: policy hash, patient commitment, result
    d_rec,        \* the decision record file
    d_pc,         \* "off", "start", "written", "verified"
    d_out,        \* what `authz verify` reported
    k_tier,       \* hosted service, key store: tinyzkp:key:tier:<key>, "none" when absent
    k_acct,       \* tinyzkp:account:<key>: the Account record, blank when absent
    k_usage,      \* tinyzkp:usage:<month>:<key> of the current month
    k_cur,        \* the api_key of the user record
    k_minted,     \* keys minted so far
    k_old,        \* the keys replaced by a rotation, with the tier they had
    k_month,      \* the calendar month
    k_free,       \* row operations served at zero cost in the current month, per key
    k_session,    \* the open checkout session, <<>> when none
    k_reqs,       \* requests handled
    k_last,       \* the last response of the service
    c_in,         \* a cost estimate request: rows, registers, and the pricing in force
    c_pc,         \* "off", "asked", "answered"
    c_out,        \* the cost_cents of the answer
    n_pc,         \* cancellation of a prove call: "off", "running", "cancelled", "rescanned"
    n_scan,       \* the rows a scan made after the cancellation delivered
    g_srs,        \* concurrent calls: the process-wide SRS, NoSrs before it is loaded
    j_calls,      \* the calls in flight, each with its own prover or verifier state
    u_in,         \* domain set-up of a request: entry, rows, omega given, zh_c
    u_pc,         \* "off", "start", "sized", "rooted", "proving", "planned", "failed", "panicked"
    u_n,          \* the domain size N
    u_omega,      \* the generator
    u_err,        \* why the set-up failed
    t_in,         \* authorization agent: the call and its arguments
    t_pc,         \* "off", "start", "returned"
    t_out,        \* what the call returned
    z_in,         \* canonicalization: the JSON text given
    z_pc,         \* "off", "start", "once", "twice"
    z_out         \* the canonical strings of the first and the second pass

p_vars == <<p_in, p_pc, p_err, phase, tr, pw, rs_pos, payload, calls, outs>>

v_vars == <<v_cfg, v_entry, v_srs, v_pc, v_buf, v_proof, v_tr, v_ch, v_hist, v_reason>>

s_vars == <<s_src, s_b, s_pos, s_state, s_cur, s_blocks, s_done, s_abandons>>

r_vars == <<r_entry, r_rows, r_k, r_pos, r_pc, r_out>>

\* The components outside the proof pipeline.
d_vars == <<d_for, d_rec, d_pc, d_out>>

k_vars == <<k_tier, k_acct, k_usage, k_cur, k_minted, k_old, k_month, k_free, k_session,
           k_reqs, k_last>>

c_vars == <<c_in, c_pc, c_out>>

n_vars == <<n_pc, n_scan>>

j_vars == <<g_srs, j_calls>>

u_vars == <<u_in, u_pc, u_n, u_omega, u_err>>

t_vars == <<t_in, t_pc, t_out>>
z_vars == <<z_in, z_pc, z_out>>
y_vars == <<u_vars, t_vars, z_vars>>

x_vars == <<k_vars, c_vars, n_vars, j_vars, y_vars>>

e_vars == <<r_vars, a_verdicts, d_vars, x_vars>>

vars == <<zeta_shift, p_vars, file, tampered, io_proof, v_vars, s_vars, e_vars>>

Absent == <<"absent">>

Bytes(bs) == <<"bytes", bs>>

Content(f) == f[2]

\* The SRS the proving process loads.
ProverSrs == CHOOSE s \in SrsIds : \A t \in SrsIds : s <= t

EmptyWork ==
    [wire_comms |-> <<>>, z_comm |-> <<>>, q_comm |-> 0,
     beta |-> 0, gamma |-> 0, alpha |-> 0, zeta |-> 0, v |-> 0,
     eval_points |-> <<>>, evals |-> <<>>, opening_proofs |-> <<>>]

NoChallenges == [beta |-> 0, gamma |-> 0, alpha |-> 0, zeta |-> 0, v |-> 0]

n_domain == next_power_of_two(p_in.rows)

omega == get_root_of_unity(n_domain)

WitnessSource == witness_rows(p_in.rows, p_in.k)

header_of(srs) ==
    [domain_n |-> n_domain, domain_omega |-> omega, zh_c |-> p_in.zh_c % FieldP,
     k |-> p_in.k, basis_wires |-> p_in.basis,
     srs_g1_digest |-> srs_g1_digest(srs), srs_g2_digest |-> srs_g2_digest(srs)]

proof_of(w) ==
    [header |-> header_of(ProverSrs), wire_comms |-> w.wire_comms,
     z_comm |-> w.z_comm, q_comm |-> w.q_comm, eval_points |-> w.eval_points,
     evals |-> w.evals, opening_proofs |-> w.opening_proofs]

(***************************************************************************)
(* The prover's phase machine (spec.md 4.8).  An event that is not the     *)
(* next one in the order is a protocol error.                              *)
(***************************************************************************)
PhaseNext(ph, ev, perm) ==
    CASE ph = "Init" /\ ev = "commit_wires" -> "CommittedWires"
      [] ph = "CommittedWires" /\ ev = "commit_z" /\ perm -> "CommittedZ"
      [] ph = "CommittedWires" /\ ev = "commit_q" /\ ~perm -> "CommittedQ"
      [] ph = "CommittedZ" /\ ev = "commit_q" -> "CommittedQ"
      [] ph = "CommittedQ" /\ ev = "open" -> "OpenedAtZeta"
      [] ph = "OpenedAtZeta" /\ ev = "serialize" -> "Serialized"
      [] OTHER -> "ProtocolError"

\* A driver that goes to the quotient right after the wires, whatever the AIR.
pc_before_q_skip(perm) == "wires_done"

\* Where prove_with_restreamer goes after the wires: to the permutation pass
\* when the AIR has a permutation argument, else straight to the quotient.
pc_before_q(perm) == IF perm THEN "z_done" ELSE "wires_done"

\* The openings of phase P4, in the order the verifier relies on: the wires,
\* then Z, then Z at omega * zeta when shifted openings are compiled in, then Q.
opening_items(wires, zp, qp, zeta, w, shift) ==
    [j \in 1 .. Len(wires) |-> [poly |-> wires[j], at |-> zeta]]
      \o (IF zp = <<>> THEN <<>> ELSE <<[poly |-> zp, at |-> zeta]>>)
      \o (IF zp # <<>> /\ shift THEN <<[poly |-> zp, at |-> (w * zeta) % FieldP]>> ELSE <<>>)
      \o <<[poly |-> qp, at |-> zeta]>>

Scan == for_each_block(WitnessSource, rs_pos, p_in.b_blk)

ScanEnd == rs_restart(rs_pos) + Len(Scan)

(***************************************************************************)
(* The command line prover, prover.rs main.                                *)
(***************************************************************************)
Fail(why) == /\ p_pc' = "failed"
             /\ p_err' = why

\* prover.rs 202-217: the domain from the row count, validated.
P_Validate ==
    /\ p_pc = "start"
    /\ IF omega = 0 THEN Fail("NoRootOfUnity")
       ELSE IF validate_domain_params(n_domain, omega, p_in.zh_c) # "Ok"
            THEN Fail("InvalidDomain")
            ELSE p_pc' = "validated" /\ UNCHANGED p_err
    /\ UNCHANGED <<zeta_shift, p_in, phase, tr, pw, rs_pos, payload, calls, outs,
                   file, tampered, io_proof, v_vars, s_vars, e_vars>>

\* prover.rs 219-260: the SRS files are read and loaded, or the call ends.
P_LoadSrs ==
    /\ p_pc = "validated"
    /\ \/ p_pc' = "srs_loaded" /\ UNCHANGED p_err
       \/ Fail("SrsMissing")
    /\ UNCHANGED <<zeta_shift, p_in, phase, tr, pw, rs_pos, payload, calls, outs,
                   file, tampered, io_proof, v_vars, s_vars, e_vars>>

Advance(ev, next_pc) ==
    /\ phase' = PhaseNext(phase, ev, p_in.perm)
    /\ IF phase' = "ProtocolError" THEN Fail("ProtocolError")
       ELSE p_pc' = next_pc /\ UNCHANGED p_err

\* P1: one pass commits the k wire columns; the public items and the
\* commitments are absorbed.
L_CommitWires ==
    /\ p_pc = "srs_loaded"
    /\ LET rows == Scan
           comms == [j \in 1 .. p_in.k |->
                        pcs_commit(ProverSrs, wire_poly(rows, j, n_domain))]
       IN  /\ pw' = [pw EXCEPT !.wire_comms = comms]
           /\ tr' = absorb(absorb_public(tr, header_of(ProverSrs)), "wires", comms)
    /\ rs_pos' = ScanEnd
    /\ Advance("commit_wires", "wires_done")
    /\ UNCHANGED <<zeta_shift, p_in, payload, calls, outs, file, tampered, io_proof, v_vars, s_vars, e_vars>>

\* P2: beta and gamma are squeezed, a second pass builds Z, its commitment
\* is absorbed.
L_CommitZ ==
    /\ p_pc = "wires_done"
    /\ p_in.perm
    /\ LET beta == challenge(tr)
           tr1 == squeeze(tr, "beta")
           gamma == challenge(tr1)
           tr2 == squeeze(tr1, "gamma")
           zc == pcs_commit(ProverSrs, z_poly(Scan, n_domain, beta, gamma))
       IN  /\ pw' = [pw EXCEPT !.beta = beta, !.gamma = gamma, !.z_comm = <<zc>>]
           /\ tr' = absorb(tr2, "z", <<zc>>)
    /\ rs_pos' = ScanEnd
    /\ Advance("commit_z", "z_done")
    /\ UNCHANGED <<zeta_shift, p_in, payload, calls, outs, file, tampered, io_proof, v_vars, s_vars, e_vars>>

\* P3: alpha is squeezed, a third pass builds the quotient, its commitment is
\* absorbed.
L_CommitQ ==
    /\ p_pc = pc_before_q(p_in.perm)
    /\ LET alpha == challenge(tr)
           tr1 == squeeze(tr, "alpha")
           rows == Scan
           zp == IF pw.z_comm = <<>> THEN <<>>
                 ELSE z_poly(rows, n_domain, pw.beta, pw.gamma)
           qc == pcs_commit(ProverSrs, q_poly(rows, n_domain, alpha, zp))
       IN  /\ pw' = [pw EXCEPT !.alpha = alpha, !.q_comm = qc]
           /\ tr' = absorb(tr1, "q", <<qc>>)
    /\ rs_pos' = ScanEnd
    /\ Advance("commit_q", "q_done")
    /\ UNCHANGED <<zeta_shift, p_in, payload, calls, outs, file, tampered, io_proof, v_vars, s_vars, e_vars>>

\* P4: zeta is squeezed, every committed polynomial is opened, v is squeezed.
L_Open ==
    /\ p_pc = "q_done"
    /\ LET zeta == challenge(tr)
           tr1 == squeeze(tr, "zeta")
           rows == Scan
           wires == [j \in 1 .. p_in.k |-> wire_poly(rows, j, n_domain)]
           zp == IF pw.z_comm = <<>> THEN <<>>
                 ELSE z_poly(rows, n_domain, pw.beta, pw.gamma)
           qp == q_poly(rows, n_domain, pw.alpha, zp)
           items == opening_items(wires, zp, qp, zeta, omega, zeta_shift)
           opened == [i \in 1 .. Len(items) |->
                        pcs_open(ProverSrs, items[i].poly, items[i].at)]
       IN  /\ pw' = [pw EXCEPT !.zeta = zeta, !.v = challenge(tr1),
                               !.eval_points = <<zeta>>,
                               !.evals = [i \in 1 .. Len(items) |-> opened[i].value],
                               !.opening_proofs =
                                   [i \in 1 .. Len(items) |-> opened[i].proof]]
           /\ tr' = squeeze(tr1, "v")
    /\ rs_pos' = ScanEnd
    /\ Advance("open", "proved")
    /\ UNCHANGED <<zeta_shift, p_in, payload, calls, outs, file, tampered, io_proof, v_vars, s_vars, e_vars>>

\* prover.rs 301-304: the proof is serialized into a buffer.
P_Serialize ==
    /\ p_pc = "proved"
    /\ payload' = serialize_compressed(proof_of(pw))
    /\ Advance("serialize", "serialized")
    /\ UNCHANGED <<zeta_shift, p_in, tr, pw, rs_pos, calls, outs, file, tampered,
                   io_proof, v_vars, s_vars, e_vars>>

\* A file opened without truncation keeps what it held.
keep_file(old) == old

\* What File::create leaves of an existing file: nothing.
create_file(old) == <<>>

\* prover.rs 306-307: the output file is created (an existing one is emptied),
\* or the call ends.
P_Create ==
    /\ p_pc = "serialized"
    /\ \/ /\ file' = Bytes(create_file(IF file = Absent THEN <<>> ELSE Content(file)))
          /\ p_pc' = "created"
          /\ UNCHANGED p_err
       \/ Fail("Io") /\ UNCHANGED file
    /\ UNCHANGED <<zeta_shift, p_in, phase, tr, pw, rs_pos, payload, calls, outs,
                   tampered, io_proof, v_vars, s_vars, e_vars>>

\* One write_all(bytes)?: the bytes are appended, or the call ends.
WriteStep(at, bytes, next_pc) ==
    /\ p_pc = at
    /\ \/ /\ file' = Bytes(Content(file) \o bytes)
          /\ p_pc' = next_pc
          /\ UNCHANGED p_err
       \/ Fail("Io") /\ UNCHANGED file
    /\ UNCHANGED <<zeta_shift, p_in, phase, tr, pw, rs_pos, payload, calls,
                   tampered, io_proof, v_vars, s_vars, e_vars>>

\* prover.rs 308
P_WriteMagic == WriteStep("created", FILE_MAGIC, "magic_written") /\ UNCHANGED outs

\* prover.rs 309
P_WriteVersion ==
    WriteStep("magic_written", to_be_bytes(FILE_VERSION), "version_written") /\ UNCHANGED outs

\* prover.rs 310-314
P_WritePayload ==
    /\ WriteStep("version_written", payload, "done")
    /\ outs' = IF p_pc' = "done" THEN Append(outs, Content(file')) ELSE outs

\* The next prove call, with the same inputs: a new transcript and a new
\* prover; the witness source and the output path are the ones used before.
P_Again ==
    /\ p_pc \in {"done", "failed"}
    /\ v_pc = "idle"
    /\ calls < MaxCalls
    /\ calls' = calls + 1
    /\ p_pc' = "start"
    /\ p_err' = "none"
    /\ phase' = "Init"
    /\ tr' = NewTranscript
    /\ pw' = EmptyWork
    /\ payload' = <<>>
    /\ UNCHANGED <<zeta_shift, p_in, rs_pos, outs, file, tampered, io_proof, v_vars, s_vars, e_vars>>

(***************************************************************************)
(* Reading a container: the gates of the command line verifier             *)
(* (verifier.rs 111-132) and of the /v1/verify handler                     *)
(* (tinyzkp_api.rs 1404-1415).                                             *)
(***************************************************************************)
\* read_exact(8 bytes), then the comparison with FILE_MAGIC.
cli_magic_gate(buf) ==
    IF Len(buf) < 8 THEN "Io"
    ELSE IF SubSeq(buf, 1, 8) # FILE_MAGIC THEN "BadMagic"
    ELSE "ok"

\* A version gate that looks at the low byte only.
cli_version_gate_low_byte(buf) ==
    IF Len(buf) < 10 THEN "Io"
    ELSE IF buf[10] # FILE_VERSION_SUPPORTED THEN "UnsupportedVersion"
    ELSE "ok"

\* read_exact(2 bytes), then the comparison of the big-endian u16.
cli_version_gate(buf) ==
    IF Len(buf) < 10 THEN "Io"
    ELSE IF from_be_bytes(SubSeq(buf, 9, 10)) # FILE_VERSION_SUPPORTED
         THEN "UnsupportedVersion"
    ELSE "ok"

\* buf.len() < 10 || &buf[0..8] != b"SSZKPv2\0"
api_magic_gate(buf) ==
    IF Len(buf) < 10 \/ SubSeq(buf, 1, 8) # FILE_MAGIC THEN "BadMagic" ELSE "ok"

\* u16::from_be_bytes([buf[8], buf[9]]) != 2
api_version_gate(buf) ==
    IF from_be_bytes(SubSeq(buf, 9, 10)) # 2 THEN "UnsupportedVersion" ELSE "ok"

magic_gate(entry, buf) ==
    IF entry = "cli" THEN cli_magic_gate(buf) ELSE api_magic_gate(buf)

version_gate(entry, buf) ==
    IF entry = "cli" THEN cli_version_gate(buf) ELSE api_version_gate(buf)

payload_of(buf) == SubSeq(buf, 11, Len(buf))

(***************************************************************************)
(* The checks of the command line verifier between parsing and delegation. *)
(***************************************************************************)
\* verifier.rs 134-143
cli_srs_check(proof, srs) ==
    IF proof.header.srs_g1_digest # srs_g1_digest(srs.g1) THEN "SrsMismatch"
    ELSE IF proof.header.srs_g2_digest # srs_g2_digest(srs.g2) THEN "SrsMismatch"
    ELSE "ok"

\* The item count without the shifted opening of Z.
expected_items_no_shift(k, s, has_z, shift) ==
    (k + (IF has_z THEN 1 ELSE 0)) * s + s

\* verifier.rs 172-185
expected_items(k, s, has_z, shift) ==
    (k + (IF has_z THEN 1 ELSE 0)) * s + s + (IF shift /\ has_z THEN s ELSE 0)

\* verifier.rs 187-192
cli_shape_check(proof, shift) ==
    LET expected == expected_items(Len(proof.wire_comms), Len(proof.eval_points),
                                   proof.z_comm # <<>>, shift)
    IN  IF Len(proof.opening_proofs) # expected \/ Len(proof.evals) # expected
        THEN "ProofShapeMismatch" ELSE "ok"

\* The state from which an entry point calls Verifier::verify: the command line
\* verifier after its shape check (verifier.rs 194-199), the handler right after
\* parsing (tinyzkp_api.rs 1417-1440).
delegates_from(entry) == IF entry = "cli" THEN "ShapeOk" ELSE "Parsed"

(***************************************************************************)
(* The scheduler's verifier (spec.md 4.6): the transcript is replayed from *)
(* the header and the commitments, then the openings are checked.          *)
(***************************************************************************)
\* A replay that squeezes alpha before it absorbs the commitment to Z.
replay_early_alpha(proof) ==
    LET t0 == absorb(absorb_public(NewTranscript, proof.header), "wires", proof.wire_comms)
        hz == proof.z_comm # <<>>
        beta == challenge(t0)
        t1 == squeeze(t0, "beta")
        gamma == challenge(t1)
        t2 == squeeze(t1, "gamma")
        t3 == IF hz THEN t2 ELSE t0
        alpha == challenge(t3)
        t3a == squeeze(t3, "alpha")
        t3b == IF hz THEN absorb(t3a, "z", proof.z_comm) ELSE t3a
        t4 == absorb(t3b, "q", <<proof.q_comm>>)
        zeta == challenge(t4)
        t5 == squeeze(t4, "zeta")
    IN  [tr |-> squeeze(t5, "v"),
         ch |-> [beta |-> IF hz THEN beta ELSE 0, gamma |-> IF hz THEN gamma ELSE 0,
                 alpha |-> alpha, zeta |-> zeta, v |-> challenge(t5)]]

replay(proof) ==
    LET t0 == absorb(absorb_public(NewTranscript, proof.header), "wires", proof.wire_comms)
        hz == proof.z_comm # <<>>
        beta == challenge(t0)
        t1 == squeeze(t0, "beta")
        gamma == challenge(t1)
        t2 == absorb(squeeze(t1, "gamma"), "z", proof.z_comm)
        t3 == IF hz THEN t2 ELSE t0
        alpha == challenge(t3)
        t4 == absorb(squeeze(t3, "alpha"), "q", <<proof.q_comm>>)
        zeta == challenge(t4)
        t5 == squeeze(t4, "zeta")
    IN  [tr |-> squeeze(t5, "v"),
         ch |-> [beta |-> IF hz THEN beta ELSE 0, gamma |-> IF hz THEN gamma ELSE 0,
                 alpha |-> alpha, zeta |-> zeta, v |-> challenge(t5)]]

\* The commitment and the point of every opening, in the prover's order.
expected_openings(proof, zeta, shift) ==
    [j \in 1 .. Len(proof.wire_comms) |-> [comm |-> proof.wire_comms[j], at |-> zeta]]
      \o (IF proof.z_comm = <<>> THEN <<>>
          ELSE <<[comm |-> proof.z_comm[1], at |-> zeta]>>)
      \o (IF proof.z_comm # <<>> /\ shift
          THEN <<[comm |-> proof.z_comm[1],
                  at |-> (proof.header.domain_omega * zeta) % FieldP]>>
          ELSE <<>>)
      \o <<[comm |-> proof.q_comm, at |-> zeta]>>

check_openings(proof, ch, srs, shift) ==
    LET items == expected_openings(proof, ch.zeta, shift)
    IN  IF proof.eval_points # <<ch.zeta>>
           \/ Len(proof.evals) # Len(items)
           \/ Len(proof.opening_proofs) # Len(items)
        THEN "OpeningCheckFailed"
        ELSE IF \A i \in 1 .. Len(items) :
                    pcs_verify(srs.g2, items[i].comm, items[i].at,
                               proof.evals[i], proof.opening_proofs[i])
             THEN "ok" ELSE "PairingCheckFailed"

\* Verify parameters taken from the verifier's own configuration.
verify_params_configured(proof, cfg) ==
    [domain_n |-> proof.header.domain_n, domain_omega |-> proof.header.domain_omega,
     zh_c |-> cfg.zh_c, basis_wires |-> cfg.basis]

\* verifier.rs 145-162, tinyzkp_api.rs 1417-1438: domain and wires basis of the
\* verify parameters are the header's; the configured basis and zh_c are
\* not used.
verify_params(proof, cfg) ==
    [domain_n |-> proof.header.domain_n, domain_omega |-> proof.header.domain_omega,
     zh_c |-> proof.header.zh_c, basis_wires |-> proof.header.basis_wires]

\* The proof as a verifier with these parameters sees it: Verifier::verify
\* works with the domain and the basis of its params.
under_params(params, proof) ==
    [proof EXCEPT !.header.domain_n = params.domain_n,
                  !.header.domain_omega = params.domain_omega,
                  !.header.zh_c = params.zh_c,
                  !.header.basis_wires = params.basis_wires]

(***************************************************************************)
(* A verification: verifier.rs main ("cli") or the /v1/verify handler      *)
(* ("api").                                                                *)
(***************************************************************************)
Reject(why) == /\ v_pc' = "Reject"
               /\ v_reason' = why
               /\ UNCHANGED v_hist

Pass(next_pc) == /\ v_pc' = next_pc
                 /\ v_hist' = Append(v_hist, next_pc)
                 /\ UNCHANGED v_reason

Gate(outcome, next_pc) == IF outcome = "ok" THEN Pass(next_pc) ELSE Reject(outcome)

v_rest == <<zeta_shift, p_vars, file, tampered, io_proof, s_vars, e_vars>>

\* The process loads its SRS and takes the container: the command line
\* verifier opens the proof file, the handler takes the uploaded bytes.
V_Start(entry, g1, g2) ==
    /\ v_pc = "idle"
    /\ p_pc \in {"done", "failed", "off"}
    /\ entry = "api" => file # Absent
    /\ v_entry' = entry
    /\ v_srs' = [g1 |-> g1, g2 |-> g2]
    /\ IF file = Absent
       THEN Reject("Io") /\ UNCHANGED v_buf
       ELSE /\ v_buf' = Content(file)
            /\ v_pc' = "open"
            /\ UNCHANGED <<v_hist, v_reason>>
    /\ UNCHANGED <<v_cfg, v_proof, v_tr, v_ch, v_rest>>

V_Magic ==
    /\ v_pc = "open"
    /\ Gate(magic_gate(v_entry, v_buf), "MagicOk")
    /\ UNCHANGED <<v_cfg, v_entry, v_srs, v_buf, v_proof, v_tr, v_ch, v_rest>>

V_Version ==
    /\ v_pc = "MagicOk"
    /\ Gate(version_gate(v_entry, v_buf), "VersionOk")
    /\ UNCHANGED <<v_cfg, v_entry, v_srs, v_buf, v_proof, v_tr, v_ch, v_rest>>

V_Deserialize ==
    /\ v_pc = "VersionOk"
    /\ LET d == deserialize_compressed(payload_of(v_buf))
       IN  IF d.ok THEN Pass("Parsed") /\ v_proof' = d.proof
           ELSE Reject("EncodingError") /\ UNCHANGED v_proof
    /\ UNCHANGED <<v_cfg, v_entry, v_srs, v_buf, v_tr, v_ch, v_rest>>

V_SrsCheck ==
    /\ v_pc = "Parsed"
    /\ v_entry = "cli"
    /\ Gate(cli_srs_check(v_proof, v_srs), "SrsOk")
    /\ UNCHANGED <<v_cfg, v_entry, v_srs, v_buf, v_proof, v_tr, v_ch, v_rest>>

V_Shape ==
    /\ v_pc = "SrsOk"
    /\ v_entry = "cli"
    /\ Gate(cli_shape_check(v_proof, zeta_shift), "ShapeOk")
    /\ UNCHANGED <<v_cfg, v_entry, v_srs, v_buf, v_proof, v_tr, v_ch, v_rest>>

V_Replay ==
    /\ v_pc = delegates_from(v_entry)
    /\ v_tr' = replay(under_params(verify_params(v_proof, v_cfg), v_proof)).tr
    /\ v_ch' = replay(under_params(verify_params(v_proof, v_cfg), v_proof)).ch
    /\ Pass("ReplayedTranscript")
    /\ UNCHANGED <<v_cfg, v_entry, v_srs, v_buf, v_proof, v_rest>>

V_Pairing ==
    /\ v_pc = "ReplayedTranscript"
    /\ Gate(check_openings(under_params(verify_params(v_proof, v_cfg), v_proof),
                            v_ch, v_srs, zeta_shift), "BatchedPairingOk")
    /\ UNCHANGED <<v_cfg, v_entry, v_srs, v_buf, v_proof, v_tr, v_ch, v_rest>>

\* verifier.rs 201-202; tinyzkp_api.rs 1450-1456
V_Accept ==
    /\ v_pc = "BatchedPairingOk"
    /\ Pass("Accepted")
    /\ UNCHANGED <<v_cfg, v_entry, v_srs, v_buf, v_proof, v_tr, v_ch, v_rest>>

(***************************************************************************)
(* The environment: someone replaces the proof file by the container of a  *)
(* changed proof, changes one of its first ten bytes, or cuts it short.    *)
(***************************************************************************)
write_proof(p) == FILE_MAGIC \o to_be_bytes(FILE_VERSION) \o serialize_compressed(p)

DropLast(xs) == IF xs = <<>> THEN <<>> ELSE SubSeq(xs, 1, Len(xs) - 1)

BumpFirst(xs) ==
    IF xs = <<>> THEN <<>> ELSE <<(xs[1] + 1) % FieldP>> \o Tail(xs)

CraftKinds ==
    {"drop_eval", "extra_eval", "drop_opening", "extra_both", "drop_z",
     "extra_point", "no_points", "bump_eval", "bump_wire"}

Crafted(p, kind) ==
    CASE kind = "drop_eval" -> [p EXCEPT !.evals = DropLast(@)]
      [] kind = "extra_eval" -> [p EXCEPT !.evals = Append(@, 0)]
      [] kind = "drop_opening" -> [p EXCEPT !.opening_proofs = DropLast(@)]
      [] kind = "extra_both" ->
            [p EXCEPT !.evals = Append(@, 0), !.opening_proofs = Append(@, 0)]
      [] kind = "drop_z" -> [p EXCEPT !.z_comm = <<>>]
      [] kind = "extra_point" -> [p EXCEPT !.eval_points = Append(@, 0)]
      [] kind = "no_points" -> [p EXCEPT !.eval_points = <<>>]
      [] kind = "bump_eval" -> [p EXCEPT !.evals = BumpFirst(@)]
      [] kind = "bump_wire" -> [p EXCEPT !.wire_comms = BumpFirst(@)]

T_Craft(kind) ==
    /\ p_pc = "done"
    /\ v_pc = "idle"
    /\ ~tampered
    /\ Crafted(proof_of(pw), kind) # proof_of(pw)
    /\ file' = Bytes(write_proof(Crafted(proof_of(pw), kind)))
    /\ tampered' = TRUE
    /\ UNCHANGED <<zeta_shift, p_vars, io_proof, v_vars, s_vars, e_vars>>

ByteAlts == {0, 2, 99, 255}

T_FlipHeaderByte(i, nb) ==
    /\ p_pc = "off"
    /\ v_pc = "idle"
    /\ ~tampered
    /\ i <= Len(Content(file))
    /\ nb # Content(file)[i]
    /\ file' = Bytes([Content(file) EXCEPT ![i] = nb])
    /\ tampered' = TRUE
    /\ UNCHANGED <<zeta_shift, p_vars, io_proof, v_vars, s_vars, e_vars>>

T_Truncate(n) ==
    /\ p_pc = "off"
    /\ v_pc = "idle"
    /\ ~tampered
    /\ n < Len(Content(file))
    /\ file' = Bytes(SubSeq(Content(file), 1, n))
    /\ tampered' = TRUE
    /\ UNCHANGED <<zeta_shift, p_vars, io_proof, v_vars, s_vars, e_vars>>

(***************************************************************************)
(* A restreamer driven block by block (spec.md 4.4).                       *)
(***************************************************************************)
s_rest == <<zeta_shift, p_vars, file, tampered, io_proof, v_vars, e_vars>>

S_Begin ==
    /\ s_state = "idle"
    /\ Len(s_done) < MaxCalls
    /\ s_state' = "scanning"
    /\ s_pos' = rs_restart(s_pos)
    /\ s_cur' = <<>>
    /\ s_blocks' = <<>>
    /\ UNCHANGED <<s_src, s_b, s_done, s_abandons, s_rest>>

S_NextBlock ==
    /\ s_state = "scanning"
    /\ s_pos < Len(s_src)
    /\ LET block == rs_block(s_src, s_pos, s_b)
       IN  /\ s_cur' = s_cur \o block
           /\ s_blocks' = Append(s_blocks, [first |-> s_pos, len |-> Len(block)])
           /\ s_pos' = s_pos + Len(block)
    /\ UNCHANGED <<s_src, s_b, s_state, s_done, s_abandons, s_rest>>

S_Finish ==
    /\ s_state = "scanning"
    /\ s_pos >= Len(s_src)
    /\ s_state' = "idle"
    /\ s_done' = Append(s_done, [rows |-> s_cur, blocks |-> s_blocks])
    /\ UNCHANGED <<s_src, s_b, s_pos, s_cur, s_blocks, s_abandons, s_rest>>

\* The consumer stops part-way and drops the scan.
S_Abandon ==
    /\ s_state = "scanning"
    /\ s_abandons < MaxCalls
    /\ s_state' = "idle"
    /\ s_abandons' = s_abandons + 1
    /\ UNCHANGED <<s_src, s_b, s_pos, s_cur, s_blocks, s_done, s_rest>>

(***************************************************************************)
(* Initial states and specifications.                                      *)
(***************************************************************************)
Bases == {"Coefficient", "Evaluation"}

NoIo == [none |-> TRUE]

ProverOff ==
    /\ p_in = [rows |-> 1, k |-> 1, b_blk |-> 1, zh_c |-> 1,
               basis |-> "Evaluation", perm |-> FALSE]
    /\ p_pc = "off"
    /\ p_err = "none"
    /\ phase = "Init"
    /\ tr = NewTranscript
    /\ pw = EmptyWork
    /\ rs_pos = 0
    /\ payload = <<>>
    /\ calls = 0
    /\ outs = <<>>

\* verifier.rs 53-57: without --basis the command line verifier assumes "eval".
DefaultCfg == [basis |-> "Evaluation", zh_c |-> 1]

VerifierIdle ==
    /\ v_cfg = DefaultCfg
    /\ v_entry = "none"
    /\ v_srs = [g1 |-> ProverSrs, g2 |-> ProverSrs]
    /\ v_pc = "idle"
    /\ v_buf = <<>>
    /\ v_proof = NoIo
    /\ v_tr = NewTranscript
    /\ v_ch = NoChallenges
    /\ v_hist = <<>>
    /\ v_reason = "none"

StreamOff ==
    /\ s_src = <<>>
    /\ s_b = 1
    /\ s_pos = 0
    /\ s_state = "off"
    /\ s_cur = <<>>
    /\ s_blocks = <<>>
    /\ s_done = <<>>
    /\ s_abandons = 0

RowsOff ==
    /\ r_entry = "none"
    /\ r_rows = <<>>
    /\ r_k = 1
    /\ r_pos = 0
    /\ r_pc = "off"
    /\ r_out = "none"

\* The components outside the proof pipeline are not run.
AuthzOff ==
    /\ d_for = [policy_hash |-> 1, patient_commitment |-> 1, claimed_result |-> "DENY"]
    /\ d_rec = <<>>
    /\ d_pc = "off"
    /\ d_out = "none"

NoKey == 0

Keys == 1 .. MaxKeys

NoAccount == [balance_cents |-> 0, total_spent_cents |-> 0, free_ops_used |-> 0]

NoResponse == [ep |-> "none", key |-> NoKey, status |-> 0, replaced |-> FALSE,
               rows |-> 0, registers |-> 0, ran |-> FALSE,
               before |-> NoAccount, after |-> NoAccount, pack |-> "none"]

ApiOff ==
    /\ k_tier = <<>>
    /\ k_acct = <<>>
    /\ k_usage = <<>>
    /\ k_cur = NoKey
    /\ k_minted = 0
    /\ k_old = <<>>
    /\ k_month = 1
    /\ k_free = <<>>
    /\ k_session = <<>>
    /\ k_reqs = 0
    /\ k_last = <<>>

CostOff ==
    /\ c_in = <<>>
    /\ c_pc = "off"
    /\ c_out = 0

CancelOff ==
    /\ n_pc = "off"
    /\ n_scan = <<>>

NoSrs == 0

ConcOff ==
    /\ g_srs = NoSrs
    /\ j_calls = <<>>

DomainOff ==
    /\ u_in = <<>>
    /\ u_pc = "off"
    /\ u_n = 0
    /\ u_omega = 0
    /\ u_err = "none"

AgentOff ==
    /\ t_in = <<>>
    /\ t_pc = "off"
    /\ t_out = <<>>
CanonOff ==
    /\ z_in = <<>>
    /\ z_pc = "off"
    /\ z_out = <<>>
YOff == DomainOff /\ AgentOff /\ CanonOff

XOff == ApiOff /\ CostOff /\ CancelOff /\ ConcOff /\ YOff

ExtOff == RowsOff /\ a_verdicts = <<>> /\ AuthzOff /\ XOff

\* The pipeline: prove calls of the command line prover, then one
\* verification of what the proof file holds.
Init ==
    /\ zeta_shift \in BOOLEAN
    /\ p_in \in [rows : 1 .. MaxRows, k : 1 .. MaxK, b_blk : 1 .. MaxBlk,
                 zh_c : {0, 1}, basis : Bases, perm : BOOLEAN]
    /\ p_pc = "start"
    /\ p_err = "none"
    /\ phase = "Init"
    /\ tr = NewTranscript
    /\ pw = EmptyWork
    /\ rs_pos = 0
    /\ payload = <<>>
    /\ calls = 1
    /\ outs = <<>>
    /\ file = Absent
    /\ tampered = FALSE
    /\ io_proof = NoIo
    /\ VerifierIdle
    /\ StreamOff
    /\ ExtOff

Verify ==
    \/ \E entry \in {"cli", "api"}, g1 \in SrsIds, g2 \in SrsIds : V_Start(entry, g1, g2)
    \/ V_Magic
    \/ V_Version
    \/ V_Deserialize
    \/ V_SrsCheck
    \/ V_Shape
    \/ V_Replay
    \/ V_Pairing
    \/ V_Accept

Next ==
    \/ P_Validate
    \/ P_LoadSrs
    \/ L_CommitWires
    \/ L_CommitZ
    \/ L_CommitQ
    \/ L_Open
    \/ P_Serialize
    \/ P_Create
    \/ P_WriteMagic
    \/ P_WriteVersion
    \/ P_WritePayload
    \/ P_Again
    \/ \E kind \in CraftKinds : T_Craft(kind)
    \/ Verify

Spec == Init /\ [][Next]_vars

(***************************************************************************)
(* Container input and output on its own: the container of a proof is      *)
(* written, possibly changed, and read by either entry point.              *)
(***************************************************************************)
GenProof(k, hz, ne, no, basis) ==
    [header |-> [domain_n |-> 2, domain_omega |-> get_root_of_unity(2), zh_c |-> 1,
                 k |-> k, basis_wires |-> basis,
                 srs_g1_digest |-> srs_g1_digest(ProverSrs),
                 srs_g2_digest |-> srs_g2_digest(ProverSrs)],
     wire_comms |-> [j \in 1 .. k |-> j % FieldP],
     z_comm |-> IF hz THEN <<3 % FieldP>> ELSE <<>>,
     q_comm |-> 4 % FieldP,
     eval_points |-> <<2 % FieldP>>,
     evals |-> [i \in 1 .. ne |-> (i + 1) % FieldP],
     opening_proofs |-> [i \in 1 .. no |-> (2 * i) % FieldP]]

GenProofs ==
    {GenProof(k, hz, ne, no, basis) :
        k \in 0 .. MaxLen, hz \in BOOLEAN, ne \in 0 .. MaxLen, no \in 0 .. MaxLen,
        basis \in Bases}

InitIO ==
    /\ zeta_shift = FALSE
    /\ ProverOff
    /\ io_proof \in GenProofs
    /\ file = Bytes(write_proof(io_proof))
    /\ tampered = FALSE
    /\ VerifierIdle
    /\ StreamOff
    /\ ExtOff

NextIO ==
    \/ \E i \in 1 .. 10, nb \in ByteAlts : T_FlipHeaderByte(i, nb)
    \/ \E n \in 0 .. (24 + 4 * MaxLen) : T_Truncate(n)
    \/ \E entry \in {"cli", "api"}, g1 \in SrsIds, g2 \in SrsIds : V_Start(entry, g1, g2)
    \/ V_Magic
    \/ V_Version
    \/ V_Deserialize

SpecIO == InitIO /\ [][NextIO]_vars

(***************************************************************************)
(* A restreamer on its own.                                                *)
(***************************************************************************)
StreamRow == {<<0>>, <<1>>, <<2>>}

StreamSources == UNION {[1 .. n -> StreamRow] : n \in 0 .. (MaxRows + 1)}

InitStream ==
    /\ zeta_shift = FALSE
    /\ ProverOff
    /\ file = Absent
    /\ tampered = FALSE
    /\ io_proof = NoIo
    /\ VerifierIdle
    /\ s_src \in StreamSources
    /\ s_b \in 1 .. MaxBlk
    /\ s_pos = 0
    /\ s_state = "idle"
    /\ s_cur = <<>>
    /\ s_blocks = <<>>
    /\ s_done = <<>>
    /\ s_abandons = 0
    /\ ExtOff

NextStream ==
    \/ S_Begin
    \/ S_NextBlock
    \/ S_Finish
    \/ S_Abandon

SpecStream == InitStream /\ [][NextStream]_vars

PipelineOff ==
    /\ zeta_shift = FALSE
    /\ ProverOff
    /\ file = Absent
    /\ tampered = FALSE
    /\ io_proof = NoIo
    /\ VerifierIdle
    /\ StreamOff

(***************************************************************************)
(* Witness rows given as text: the CSV restreamer behind                   *)
(* api::prove_from_stream, as tests/csv_streaming.rs 2.5a and 2.5b pin it  *)
(* down, and rows_from_json of the /v1/prove handler.                      *)
(***************************************************************************)
Numeric(tok) == tok \in {"7", "8"}

ArityOk(row, k) == Len(row) = k

AllNumeric(row) == \A j \in 1 .. Len(row) : Numeric(row[j])

\* What reading one CSV row can end in.  Test 2.5a expects the call to panic
\* with "expected k=3" on a row of the wrong length; test 2.5b passes both when
\* the call returns an error and when it panics on a token that is no number.
csv_row_outcomes(row, k) ==
    (IF ~ArityOk(row, k) THEN {"panic"} ELSE {})
      \cup (IF ~AllNumeric(row) THEN {"RowParse", "panic"} ELSE {})
      \cup (IF ArityOk(row, k) /\ AllNumeric(row) THEN {"ok"} ELSE {})

RECURSIVE rows_from_json_at(_, _, _)
rows_from_json_at(rows, k, i) ==
    IF i > Len(rows) THEN "ok"
    ELSE IF Len(rows[i]) # k THEN "RowShape"
    ELSE rows_from_json_at(rows, k, i + 1)

\* tinyzkp_api.rs 586-603: the first row whose length is not k ends the
\* conversion with an error.
rows_from_json(rows, k) == rows_from_json_at(rows, k, 1)

r_rest == <<zeta_shift, p_vars, file, tampered, io_proof, v_vars, s_vars, a_verdicts, d_vars,
           x_vars>>

R_CsvRow ==
    /\ r_pc = "reading"
    /\ r_entry = "csv"
    /\ r_pos < Len(r_rows)
    /\ \E o \in csv_row_outcomes(r_rows[r_pos + 1], r_k) :
          /\ r_pc' = CASE o = "ok" -> "reading"
                       [] o = "panic" -> "panicked"
                       [] OTHER -> "returned"
          /\ r_out' = IF o \in {"ok", "panic"} THEN r_out ELSE o
          /\ r_pos' = IF o = "ok" THEN r_pos + 1 ELSE r_pos
    /\ UNCHANGED <<r_entry, r_rows, r_k, r_rest>>

R_CsvEnd ==
    /\ r_pc = "reading"
    /\ r_entry = "csv"
    /\ r_pos = Len(r_rows)
    /\ r_pc' = "read"
    /\ UNCHANGED <<r_entry, r_rows, r_k, r_pos, r_out, r_rest>>

\* tinyzkp_api.rs 1334-1338
R_Json ==
    /\ r_pc = "reading"
    /\ r_entry = "json"
    /\ LET o == rows_from_json(r_rows, r_k)
       IN  IF o = "ok"
           THEN r_pc' = "read" /\ r_pos' = Len(r_rows) /\ UNCHANGED r_out
           ELSE r_pc' = "returned" /\ r_out' = o /\ UNCHANGED r_pos
    /\ UNCHANGED <<r_entry, r_rows, r_k, r_rest>>

\* The rows were all read: the prover runs and the proof is returned.
R_Prove ==
    /\ r_pc = "read"
    /\ r_pc' = "returned"
    /\ r_out' = "proof"
    /\ UNCHANGED <<r_entry, r_rows, r_k, r_pos, r_rest>>

GoodRow(k) == [j \in 1 .. k |-> "7"]

RowKinds == {"good", "short", "long", "word_first", "word_last"}

TextRow(kind, k) ==
    CASE kind = "good" -> GoodRow(k)
      [] kind = "short" -> GoodRow(k - 1)
      [] kind = "long" -> GoodRow(k + 1)
      [] kind = "word_first" -> <<"abc">> \o GoodRow(k - 1)
      [] kind = "word_last" -> GoodRow(k - 1) \o <<"abc">>

TextInputs(k) ==
    UNION {{[i \in 1 .. n |-> TextRow(kinds[i], k)] : kinds \in [1 .. n -> RowKinds]} :
              n \in 0 .. MaxRows}

InitRows ==
    /\ PipelineOff
    /\ a_verdicts = <<>>
    /\ AuthzOff
    /\ XOff
    /\ r_entry \in {"csv", "json"}
    /\ r_k \in 2 .. (MaxK + 1)
    /\ r_rows \in TextInputs(r_k)
    \* a JSON body is typed: every token of its rows is a number
    /\ r_entry = "json" => \A i \in 1 .. Len(r_rows) : AllNumeric(r_rows[i])
    /\ r_pos = 0
    /\ r_pc = "reading"
    /\ r_out = "none"

NextRows ==
    \/ R_CsvRow
    \/ R_CsvEnd
    \/ R_Json
    \/ R_Prove

SpecRows == InitRows /\ [][NextRows]_vars

(***************************************************************************)
(* The same container verified again by a verifier that differs only in    *)
(* its configured wires basis and zh_c (verifier.rs 52-62).                *)
(***************************************************************************)
Cfgs == [basis : Bases, zh_c : {1, 2}]

Verdict == IF v_pc = "Accepted" THEN "ok" ELSE v_reason

V_Again(cfg) ==
    /\ v_pc \in {"Accepted", "Reject"}
    /\ file # Absent
    /\ Len(a_verdicts) < MaxCalls - 1
    /\ cfg # v_cfg
    /\ a_verdicts' = Append(a_verdicts, [cfg |-> v_cfg, verdict |-> Verdict])
    /\ v_cfg' = cfg
    /\ v_pc' = "open"
    /\ v_hist' = <<>>
    /\ v_reason' = "none"
    /\ v_proof' = NoIo
    /\ v_tr' = NewTranscript
    /\ v_ch' = NoChallenges
    /\ UNCHANGED <<v_entry, v_srs, v_buf, zeta_shift, p_vars, file, tampered, io_proof,
                   s_vars, r_vars, d_vars, x_vars>>

InitAuthority ==
    /\ zeta_shift = FALSE
    /\ p_in \in [rows : 1 .. MaxRows, k : {1}, b_blk : {1}, zh_c : {1}, basis : Bases,
                 perm : BOOLEAN]
    /\ p_pc = "start"
    /\ p_err = "none"
    /\ phase = "Init"
    /\ tr = NewTranscript
    /\ pw = EmptyWork
    /\ rs_pos = 0
    /\ payload = <<>>
    /\ calls = 1
    /\ outs = <<>>
    /\ file = Absent
    /\ tampered = FALSE
    /\ io_proof = NoIo
    /\ VerifierIdle
    /\ StreamOff
    /\ ExtOff

NextAuthority ==
    \/ P_Validate
    \/ P_LoadSrs
    \/ L_CommitWires
    \/ L_CommitZ
    \/ L_CommitQ
    \/ L_Open
    \/ P_Serialize
    \/ P_Create
    \/ P_WriteMagic
    \/ P_WriteVersion
    \/ P_WritePayload
    \/ \E kind \in {"bump_eval", "drop_eval"} : T_Craft(kind)
    \/ \E entry \in {"cli", "api"}, g2 \in SrsIds : V_Start(entry, ProverSrs, g2)
    \/ V_Magic
    \/ V_Version
    \/ V_Deserialize
    \/ V_SrsCheck
    \/ V_Shape
    \/ V_Replay
    \/ V_Pairing
    \/ V_Accept
    \/ \E cfg \in Cfgs : V_Again(cfg)

SpecAuthority == InitAuthority /\ [][NextAuthority]_vars

(***************************************************************************)
(* zk-agent: `authz prove` writes a decision record, `authz verify` reads   *)
(* one (cli/prove.rs, cli/verify.rs, decision.rs).                         *)
(***************************************************************************)
Hashes == {1, 2}

Results == {"APPROVE", "NEEDS_PA", "DENY"}

\* The proof of the trace built for these public values, and a changed one.
proof_for(pub) == [made_for |-> pub, intact |-> TRUE]

\* base64::encode / base64::decode of the proof bytes
b64_encode(proof) == <<"b64", proof>>

decode_proof(text) ==
    IF Len(text) = 2 /\ text[1] = "b64" THEN [ok |-> TRUE, proof |-> text[2]]
    ELSE [ok |-> FALSE, proof |-> proof_for([policy_hash |-> 1, patient_commitment |-> 1,
                                            claimed_result |-> "DENY"])]

\* decision.rs 101-122
DecisionRecord_new(pub, proof) ==
    [policy_hash |-> pub.policy_hash, patient_commitment |-> pub.patient_commitment,
     claimed_result |-> pub.claimed_result, proof |-> b64_encode(proof)]

\* myzkp::api::verify on the proof alone: the proof type has no field for the
\* record's public values and the verifier is given nothing else.
authz_verify_proof(proof) == proof.intact

\* cli/verify.rs 28-146: load, decode, verify the proof, report.
verify_command(rec) ==
    LET d == decode_proof(rec.proof)
    IN  IF ~d.ok THEN "decode failed"
        ELSE IF authz_verify_proof(d.proof) THEN "VERIFICATION SUCCESSFUL"
        ELSE "VERIFICATION FAILED"

d_rest == <<zeta_shift, p_vars, file, tampered, io_proof, v_vars, s_vars, r_vars, a_verdicts,
           x_vars>>

\* cli/prove.rs 102-176
D_Prove ==
    /\ d_pc = "start"
    /\ d_rec' = DecisionRecord_new(d_for, proof_for(d_for))
    /\ d_pc' = "written"
    /\ UNCHANGED <<d_for, d_out, d_rest>>

\* Someone edits one public field of the record file and leaves the proof.
D_EditField(field, val) ==
    /\ d_pc = "written"
    /\ d_rec[field] # val
    /\ d_rec' = [d_rec EXCEPT ![field] = val]
    /\ UNCHANGED <<d_for, d_pc, d_out, d_rest>>

\* Someone changes the proof field: to text that is no base64, or to the
\* encoding of a proof that does not verify.
D_EditProof(garble) ==
    /\ d_pc = "written"
    /\ decode_proof(d_rec.proof).ok
    /\ decode_proof(d_rec.proof).proof.intact
    /\ d_rec' = [d_rec EXCEPT !.proof =
                    IF garble THEN <<"not base64">>
                    ELSE b64_encode([decode_proof(@).proof EXCEPT !.intact = FALSE])]
    /\ UNCHANGED <<d_for, d_pc, d_out, d_rest>>

D_Verify ==
    /\ d_pc = "written"
    /\ d_out' = verify_command(d_rec)
    /\ d_pc' = "verified"
    /\ UNCHANGED <<d_for, d_rec, d_rest>>

InitAuthz ==
    /\ PipelineOff
    /\ RowsOff
    /\ a_verdicts = <<>>
    /\ XOff
    /\ d_for \in [policy_hash : Hashes, patient_commitment : Hashes, claimed_result : Results]
    /\ d_rec = <<>>
    /\ d_pc = "start"
    /\ d_out = "none"

NextAuthz ==
    \/ D_Prove
    \/ \E val \in Hashes : D_EditField("policy_hash", val)
    \/ \E val \in Hashes : D_EditField("patient_commitment", val)
    \/ \E val \in Results : D_EditField("claimed_result", val)
    \/ \E garble \in BOOLEAN : D_EditProof(garble)
    \/ D_Verify

SpecAuthz == InitAuthz /\ [][NextAuthz]_vars

(***************************************************************************)
(* The hosted service: API keys, usage caps and prepaid billing            *)
(* (src/bin/tinyzkp_api.rs).  The i64 arithmetic saturates or wraps where  *)
(* the code's does.                                                        *)
(***************************************************************************)
\* `n as i64` of a usize: the same bits, read as two's complement
as_i64(n) == IF n > I64_MAX THEN n - 2 ^ IntBits ELSE n

Abs(a) == IF a < 0 THEN 0 - a ELSE a

Clamp(a) == IF a > I64_MAX THEN I64_MAX ELSE IF a < I64_MIN THEN I64_MIN ELSE a

saturating_add(a, b) == Clamp(a + b)

saturating_sub(a, b) == Clamp(a - b)

saturating_mul(a, b) ==
    IF a = 0 \/ b = 0 THEN 0
    ELSE IF Abs(a) > I64_MAX \div Abs(b)
         THEN IF (a < 0) = (b < 0) THEN I64_MAX ELSE I64_MIN
         ELSE a * b

\* i64 division rounds towards zero
saturating_div(a, b) ==
    IF a = I64_MIN /\ b = 0 - 1 THEN I64_MAX
    ELSE IF (a < 0) = (b < 0) THEN Abs(a) \div Abs(b) ELSE 0 - (Abs(a) \div Abs(b))

calculate_cost(rows, registers, config) ==
    LET ops == saturating_mul(as_i64(rows), as_i64(registers))
        base_cents == config.base_cost_cents
        compute_cents ==
            saturating_div(saturating_mul(ops, config.cost_per_million_ops_cents), 1000000)
    IN  saturating_add(base_cents, compute_cents)

\* The service's configuration: every value is read from the environment.
st == [pricing |-> [base_cost_cents |-> 1,
                    cost_per_million_ops_cents |-> 1000000,
                    free_monthly_ops |-> 4],
       free_cap |-> 1, pro_cap |-> 2, scale_cap |-> 2,
       max_rows |-> 1024]

Tiers == {"free", "pro", "scale"}

account_of(key) == IF key = NoKey THEN NoAccount ELSE k_acct[key]

Denied(status, account) ==
    [status |-> status, account |-> account, from_free |-> 0, cost |-> 0]

\* a variant of check_and_deduct that books the free allowance before it
\* looks at the balance
check_and_deduct_books_first(key, rows, registers) ==
    IF key = NoKey THEN Denied(401, NoAccount)
    ELSE
        LET account == account_of(key)
            ops == saturating_mul(as_i64(rows), as_i64(registers))
            cost_cents == calculate_cost(rows, registers, st.pricing)
            free_available ==
                saturating_sub(st.pricing.free_monthly_ops, account.free_ops_used)
            from_free == IF free_available >= ops THEN ops
                         ELSE IF free_available > 0 THEN free_available ELSE 0
            actual_cost ==
                IF free_available >= ops THEN 0
                ELSE IF free_available > 0
                     THEN calculate_cost(
                              IF (ops - free_available) \div as_i64(registers) > 1
                              THEN (ops - free_available) \div as_i64(registers) ELSE 1,
                              registers, st.pricing)
                     ELSE cost_cents
            booked == [account EXCEPT
                          !.free_ops_used = saturating_add(@, from_free)]
        IN  IF actual_cost > account.balance_cents
            THEN Denied(402, booked)
            ELSE [status |-> 200,
                  account |-> [booked EXCEPT
                      !.balance_cents = saturating_sub(@, actual_cost),
                      !.total_spent_cents = saturating_add(@, actual_cost)],
                  from_free |-> from_free,
                  cost |-> actual_cost]

\* the response and the account record the handler leaves in the store
check_and_deduct(key, rows, registers) ==
    IF key = NoKey THEN Denied(401, NoAccount)
    ELSE
        LET account == account_of(key)
            ops == saturating_mul(as_i64(rows), as_i64(registers))
            cost_cents == calculate_cost(rows, registers, st.pricing)
            free_available ==
                saturating_sub(st.pricing.free_monthly_ops, account.free_ops_used)
            ops_paid == ops - free_available
            paid_rows == IF ops_paid \div as_i64(registers) > 1
                         THEN ops_paid \div as_i64(registers) ELSE 1
            split ==
                IF free_available >= ops THEN <<ops, 0, 0>>
                ELSE IF free_available > 0
                     THEN <<free_available, ops_paid,
                            calculate_cost(paid_rows, registers, st.pricing)>>
                     ELSE <<0, ops, cost_cents>>
            ops_from_free == split[1]
            actual_cost == split[3]
        IN  IF actual_cost > account.balance_cents
            THEN Denied(402, account)
            ELSE [status |-> 200,
                  account |-> [account EXCEPT
                      !.free_ops_used = saturating_add(@, ops_from_free),
                      !.balance_cents = saturating_sub(@, actual_cost),
                      !.total_spent_cents = saturating_add(@, actual_cost)],
                  from_free |-> ops_from_free,
                  cost |-> actual_cost]

\* the response, and whether the monthly counter was incremented
check_and_count(key) ==
    IF key = NoKey THEN [status |-> 401, counted |-> FALSE]
    ELSE IF k_tier[key] = "none" THEN [status |-> 401, counted |-> FALSE]
    ELSE IF k_tier[key] = "disabled" THEN [status |-> 401, counted |-> FALSE]
    ELSE
        LET cap == CASE k_tier[key] = "pro" -> st.pro_cap
                     [] k_tier[key] = "scale" -> st.scale_cap
                     [] OTHER -> st.free_cap
            used == k_usage[key] + 1
        IN  [status |-> IF used > cap THEN 402 ELSE 200, counted |-> TRUE]

Replaced(key) == \E i \in 1 .. Len(k_old) : k_old[i].old = key

k_rest == <<zeta_shift, p_vars, file, tampered, io_proof, v_vars, s_vars, r_vars, a_verdicts,
           d_vars, c_vars, n_vars, j_vars, y_vars>>

\* POST /v1/prove
K_Prove(key, rows, registers) ==
    /\ k_reqs < MaxReqs
    /\ LET res == check_and_deduct(key, rows, registers)
       IN  /\ k_acct' = IF key = NoKey THEN k_acct ELSE [k_acct EXCEPT ![key] = res.account]
           /\ k_usage' = IF res.status = 200 THEN [k_usage EXCEPT ![key] = @ + 1] ELSE k_usage
           /\ k_free' = IF res.status = 200
                        THEN [k_free EXCEPT ![key] = @ + res.from_free] ELSE k_free
           /\ k_last' = [ep |-> "prove", key |-> key, status |-> res.status,
                         replaced |-> Replaced(key),
                         rows |-> rows, registers |-> registers,
                         ran |-> res.status = 200,
                         before |-> account_of(key), after |-> res.account,
                         pack |-> "none"]
    /\ k_reqs' = k_reqs + 1
    /\ UNCHANGED <<k_tier, k_cur, k_minted, k_old, k_month, k_session, k_rest>>

\* POST /v1/verify and POST /v1/proof/inspect
K_Check(ep, key) ==
    /\ k_reqs < MaxReqs
    /\ LET res == check_and_count(key)
       IN  /\ k_usage' = IF res.counted THEN [k_usage EXCEPT ![key] = @ + 1] ELSE k_usage
           /\ k_last' = [NoResponse EXCEPT !.ep = ep, !.key = key, !.status = res.status,
                                           !.replaced = Replaced(key),
                                           !.ran = res.status = 200,
                                           !.before = account_of(key),
                                           !.after = account_of(key)]
    /\ k_reqs' = k_reqs + 1
    /\ UNCHANGED <<k_tier, k_acct, k_cur, k_minted, k_old, k_month, k_free, k_session, k_rest>>

\* POST /v1/keys/rotate, in a valid session of the user
rotate_key ==
    /\ k_minted < MaxKeys
    /\ LET old_api == k_cur
           tier_str == IF k_tier[old_api] = "none" THEN "free" ELSE k_tier[old_api]
           new_api == k_minted + 1
       IN  /\ k_tier' = [k_tier EXCEPT ![old_api] = "disabled", ![new_api] = tier_str]
           /\ k_cur' = new_api
           /\ k_minted' = new_api
           /\ k_old' = Append(k_old, [old |-> old_api, new |-> new_api, tier |-> tier_str])
    /\ k_last' = [NoResponse EXCEPT !.ep = "rotate", !.key = k_cur, !.status = 200]
    /\ UNCHANGED <<k_acct, k_usage, k_month, k_free, k_session, k_reqs, k_rest>>

PackTexts == {"small", "medium", "Medium", "LARGE", "mega"}

to_lowercase(text) ==
    CASE text = "Medium" -> "medium"
      [] text = "LARGE" -> "large"
      [] OTHER -> text

\* POST /v1/billing/topup: the checkout session it creates, <<>> when refused
billing_topup(key, pack) ==
    LET lower == to_lowercase(pack)
        amount_cents == CASE lower = "small" -> 1000
                          [] lower = "medium" -> 5000
                          [] lower = "large" -> 50000
                          [] OTHER -> 0
    IN  IF key = NoKey \/ lower \notin {"small", "medium", "large"} THEN <<>>
        ELSE <<[api_key |-> key, amount_cents |-> amount_cents, pack |-> pack]>>

K_Topup(key, pack) ==
    /\ k_reqs < MaxReqs
    /\ k_session = <<>>
    /\ k_session' = billing_topup(key, pack)
    /\ k_last' = [NoResponse EXCEPT
                     !.ep = "topup", !.key = key, !.pack = pack,
                     !.status = IF key = NoKey THEN 401
                                ELSE IF billing_topup(key, pack) = <<>> THEN 400 ELSE 200]
    /\ k_reqs' = k_reqs + 1
    /\ UNCHANGED <<k_tier, k_acct, k_usage, k_cur, k_minted, k_old, k_month, k_free, k_rest>>

\* the credit a completed checkout session adds to the balance
webhook_credits(md) ==
    CASE md.pack = "small" -> 1000
      [] md.pack = "medium" -> 6000
      [] md.pack = "large" -> 75000
      [] OTHER -> md.amount_cents

\* POST /v1/stripe/webhook, checkout.session.completed of the open session
stripe_webhook ==
    /\ k_session # <<>>
    /\ LET md == k_session[1]
           account == k_acct[md.api_key]
           credited == [account EXCEPT
                           !.balance_cents = saturating_add(@, webhook_credits(md))]
       IN  /\ k_acct' = [k_acct EXCEPT ![md.api_key] = credited]
           /\ k_last' = [NoResponse EXCEPT
                            !.ep = "webhook", !.key = md.api_key, !.status = 200,
                            !.pack = md.pack, !.before = account, !.after = credited]
    /\ k_session' = <<>>
    /\ UNCHANGED <<k_tier, k_usage, k_cur, k_minted, k_old, k_month, k_free, k_reqs, k_rest>>

\* The calendar month ends: the usage counters are keyed by the month, the
\* account records are not.
K_MonthEnds ==
    /\ k_month < MaxMonths
    /\ k_month' = k_month + 1
    /\ k_usage' = [key \in Keys |-> 0]
    /\ k_free' = [key \in Keys |-> 0]
    /\ UNCHANGED <<k_tier, k_acct, k_cur, k_minted, k_old, k_session, k_reqs, k_last, k_rest>>

ProveRows == {1, 3}

ProveRegisters == {1, 2}

InitApi ==
    /\ PipelineOff
    /\ RowsOff
    /\ a_verdicts = <<>>
    /\ AuthzOff
    /\ CostOff
    /\ CancelOff
    /\ ConcOff
    /\ YOff
    /\ k_tier \in {[key \in Keys |-> IF key = 1 THEN t ELSE "none"] : t \in Tiers}
    /\ k_acct = [key \in Keys |-> NoAccount]
    /\ k_usage = [key \in Keys |-> 0]
    /\ k_cur = 1
    /\ k_minted = 1
    /\ k_old = <<>>
    /\ k_month = 1
    /\ k_free = [key \in Keys |-> 0]
    /\ k_session = <<>>
    /\ k_reqs = 0
    /\ k_last = NoResponse

NextApi ==
    \/ \E key \in Keys \cup {NoKey}, rows \in ProveRows, registers \in ProveRegisters :
           K_Prove(key, rows, registers)
    \/ \E key \in Keys \cup {NoKey} : K_Check("verify", key)
    \/ \E key \in Keys \cup {NoKey} : K_Check("inspect", key)
    \/ rotate_key
    \/ \E key \in Keys \cup {NoKey}, pack \in PackTexts : K_Topup(key, pack)
    \/ stripe_webhook
    \/ K_MonthEnds

SpecApi == InitApi /\ [][NextApi]_vars

(***************************************************************************)
(* POST /v1/pricing/estimate: calculate_cost over the range of its         *)
(* arguments.                                                              *)
(***************************************************************************)
\* rows and registers as the request body can carry them: any usize
CostRows == {0, 1, 1024, 1048576, I64_MAX, I64_MAX + 1, USIZE_MAX}

CostRegisters == {0, 1, 3, 32, USIZE_MAX}

\* non-negative pricing, as the environment can set it
CostPricings ==
    [base_cost_cents : {0, 1, I64_MAX},
     cost_per_million_ops_cents : {0, 10, I64_MAX},
     free_monthly_ops : {0}]

pricing_estimate ==
    /\ c_pc = "asked"
    /\ c_out' = calculate_cost(c_in.rows, c_in.registers, c_in.config)
    /\ c_pc' = "answered"
    /\ UNCHANGED <<c_in, zeta_shift, p_vars, file, tampered, io_proof, v_vars, s_vars, r_vars,
                   a_verdicts, d_vars, k_vars, n_vars, j_vars, y_vars>>

InitCost ==
    /\ PipelineOff
    /\ RowsOff
    /\ a_verdicts = <<>>
    /\ AuthzOff
    /\ ApiOff
    /\ CancelOff
    /\ ConcOff
    /\ YOff
    /\ c_in \in [rows : CostRows, registers : CostRegisters, config : CostPricings]
    /\ c_pc = "asked"
    /\ c_out = 0

NextCost == pricing_estimate

SpecCost == InitCost /\ [][NextCost]_vars

(***************************************************************************)
(* Cancellation of a prove call (spec.md 5): the call may be cancelled      *)
(* between two phases; its buffers are dropped, no proof is emitted, and   *)
(* the restreamer is left wherever the abandoned scan stood.               *)
(***************************************************************************)
\* a prover that does not look at the cancellation
cancel_ignored(call) == call

\* what a cancellation leaves of the call: position, buffers, transcript
cancel(call) == [pc |-> "cancelled", work |-> EmptyWork, tr |-> NewTranscript]

BetweenPhases == {"wires_done", "z_done", "q_done"}

\* The caller cancels; `at` is the row at which the scan of the next phase,
\* if it had begun, is abandoned.
N_Cancel(at) ==
    /\ n_pc = "running"
    /\ p_pc \in BetweenPhases
    /\ LET left == cancel([pc |-> p_pc, work |-> pw, tr |-> tr])
       IN  /\ p_pc' = left.pc
           /\ pw' = left.work
           /\ tr' = left.tr
    /\ rs_pos' = at
    /\ n_pc' = "cancelled"
    /\ UNCHANGED <<n_scan, zeta_shift, p_in, p_err, phase, payload, calls, outs, file,
                   tampered, io_proof, v_vars, s_vars, r_vars, a_verdicts, d_vars, k_vars,
                   c_vars, j_vars, y_vars>>

\* A later full scan of the same restreamer.
N_Rescan ==
    /\ n_pc = "cancelled"
    /\ n_scan' = Scan
    /\ rs_pos' = ScanEnd
    /\ n_pc' = "rescanned"
    /\ UNCHANGED <<zeta_shift, p_in, p_pc, p_err, phase, tr, pw, payload, calls, outs, file,
                   tampered, io_proof, v_vars, s_vars, r_vars, a_verdicts, d_vars, k_vars,
                   c_vars, j_vars, y_vars>>

InitCancel ==
    /\ zeta_shift = FALSE
    /\ p_in \in [rows : 1 .. MaxRows, k : 1 .. MaxK, b_blk : 1 .. MaxBlk, zh_c : {1},
                 basis : Bases, perm : BOOLEAN]
    /\ p_pc = "start"
    /\ p_err = "none"
    /\ phase = "Init"
    /\ tr = NewTranscript
    /\ pw = EmptyWork
    /\ rs_pos = 0
    /\ payload = <<>>
    /\ calls = 1
    /\ outs = <<>>
    /\ file = Absent
    /\ tampered = FALSE
    /\ io_proof = NoIo
    /\ VerifierIdle
    /\ StreamOff
    /\ RowsOff
    /\ a_verdicts = <<>>
    /\ AuthzOff
    /\ ApiOff
    /\ CostOff
    /\ ConcOff
    /\ YOff
    /\ n_pc = "running"
    /\ n_scan = <<>>

NextCancel ==
    \/ P_Validate
    \/ P_LoadSrs
    \/ L_CommitWires
    \/ L_CommitZ
    \/ L_CommitQ
    \/ L_Open
    \/ P_Serialize
    \/ \E at \in 0 .. p_in.rows : N_Cancel(at)
    \/ N_Rescan

SpecCancel == InitCancel /\ [][NextCancel]_vars

(***************************************************************************)
(* Concurrent calls in the host service (spec.md 5): every call owns its   *)
(* prover or verifier and its transcript; the SRS is process-wide, loaded  *)
(* at startup (prover.rs 238-260) and read by every phase that commits,    *)
(* opens or checks a pairing.                                              *)
(***************************************************************************)
\* an SRS slot that can be loaded at any time
srs_reloadable(cur) == TRUE

\* the SRS can be written while none is loaded
srs_loadable(cur) == cur = NoSrs

CallHeader(c) ==
    [domain_n |-> next_power_of_two(c.rows),
     domain_omega |-> get_root_of_unity(next_power_of_two(c.rows)),
     zh_c |-> 1, k |-> 1, basis_wires |-> "Evaluation",
     srs_g1_digest |-> srs_g1_digest(c.srs0), srs_g2_digest |-> srs_g2_digest(c.srs0)]

NewCall(kind, rows, perm, srs, given) ==
    [kind |-> kind, rows |-> rows, perm |-> perm, srs0 |-> srs, given |-> given,
     pc |-> "start", tr |-> NewTranscript, work |-> EmptyWork, out |-> <<>>]

\* One phase of a call, on the call's own state, with the SRS as it is
\* loaded when the phase runs.
call_step(c, srs) ==
    LET n == next_power_of_two(c.rows)
        rows == witness_rows(c.rows, 1)
        wires == <<wire_poly(rows, 1, n)>>
        zp == IF c.perm THEN z_poly(rows, n, c.work.beta, c.work.gamma) ELSE <<>>
    IN  CASE c.kind = "prove" /\ c.pc = "start" ->
               LET comms == <<pcs_commit(srs, wires[1])>>
               IN  [c EXCEPT !.pc = "wires_done",
                             !.work.wire_comms = comms,
                             !.tr = absorb(absorb_public(c.tr, CallHeader(c)), "wires", comms)]
          [] c.kind = "prove" /\ c.pc = "wires_done" /\ c.perm ->
               LET beta == challenge(c.tr)
                   tr1 == squeeze(c.tr, "beta")
                   gamma == challenge(tr1)
                   zc == pcs_commit(srs, z_poly(rows, n, beta, gamma))
               IN  [c EXCEPT !.pc = "z_done",
                             !.work.beta = beta, !.work.gamma = gamma,
                             !.work.z_comm = <<zc>>,
                             !.tr = absorb(squeeze(tr1, "gamma"), "z", <<zc>>)]
          [] c.kind = "prove" /\ c.pc = pc_before_q(c.perm) ->
               LET alpha == challenge(c.tr)
                   qc == pcs_commit(srs, q_poly(rows, n, alpha, zp))
               IN  [c EXCEPT !.pc = "q_done",
                             !.work.alpha = alpha, !.work.q_comm = qc,
                             !.tr = absorb(squeeze(c.tr, "alpha"), "q", <<qc>>)]
          [] c.kind = "prove" /\ c.pc = "q_done" ->
               LET zeta == challenge(c.tr)
                   qp == q_poly(rows, n, c.work.alpha, zp)
                   items == opening_items(wires, zp, qp, zeta, get_root_of_unity(n), FALSE)
                   opened == [i \in 1 .. Len(items) |->
                                 pcs_open(srs, items[i].poly, items[i].at)]
               IN  [c EXCEPT !.pc = "done",
                             !.tr = squeeze(squeeze(c.tr, "zeta"), "v"),
                             !.out = [header |-> CallHeader(c),
                                      wire_comms |-> c.work.wire_comms,
                                      z_comm |-> c.work.z_comm,
                                      q_comm |-> c.work.q_comm,
                                      eval_points |-> <<zeta>>,
                                      evals |-> [i \in 1 .. Len(items) |-> opened[i].value],
                                      opening_proofs |->
                                          [i \in 1 .. Len(items) |-> opened[i].proof]]]
          [] c.kind = "verify" /\ c.pc = "start" ->
               [c EXCEPT !.pc = "replayed",
                         !.tr = replay(c.given).tr,
                         !.work.zeta = replay(c.given).ch.zeta]
          [] c.kind = "verify" /\ c.pc = "replayed" ->
               [c EXCEPT !.pc = "done",
                         !.out = check_openings(c.given, [zeta |-> c.work.zeta],
                                                [g1 |-> srs, g2 |-> srs], FALSE)]
          [] OTHER -> c

RECURSIVE run_alone(_, _)
\* The call run from where it stands to its end with no other call in the
\* process.
run_alone(c, srs) == IF c.pc = "done" THEN c ELSE run_alone(call_step(c, srs), srs)

j_rest == <<zeta_shift, p_vars, file, tampered, io_proof, v_vars, s_vars, r_vars, a_verdicts,
           d_vars, k_vars, c_vars, n_vars, y_vars>>

\* prover.rs 238-260: the SRS is loaded
J_LoadSrs(srs) ==
    /\ srs_loadable(g_srs)
    /\ g_srs' = srs
    /\ UNCHANGED <<j_calls, j_rest>>

\* A request arrives: a prove call over a witness, or a verify call over the
\* proof of such a witness.
J_Begin(kind, rows, perm) ==
    /\ g_srs # NoSrs
    /\ Len(j_calls) < MaxCalls
    /\ LET given == IF kind = "verify"
                    THEN run_alone(NewCall("prove", rows, perm, g_srs, <<>>), g_srs).out
                    ELSE <<>>
       IN  j_calls' = Append(j_calls, NewCall(kind, rows, perm, g_srs, given))
    /\ UNCHANGED <<g_srs, j_rest>>

\* The thread of call i runs its next phase.
J_Step(i) ==
    /\ i \in 1 .. Len(j_calls)
    /\ j_calls[i].pc # "done"
    /\ j_calls' = [j_calls EXCEPT ![i] = call_step(@, g_srs)]
    /\ UNCHANGED <<g_srs, j_rest>>

InitConc ==
    /\ PipelineOff
    /\ RowsOff
    /\ a_verdicts = <<>>
    /\ AuthzOff
    /\ ApiOff
    /\ CostOff
    /\ CancelOff
    /\ YOff
    /\ g_srs = NoSrs
    /\ j_calls = <<>>

NextConc ==
    \/ \E srs \in SrsIds : J_LoadSrs(srs)
    \/ \E kind \in {"prove", "verify"}, rows \in 1 .. MaxRows, perm \in BOOLEAN :
           J_Begin(kind, rows, perm)
    \/ \E i \in 1 .. MaxCalls : J_Step(i)

SpecConc == InitConc /\ [][NextConc]_vars

(***************************************************************************)
(* Domain set-up of a request: the size N from the row count, the          *)
(* generator, and the validation, in the command line prover (prover.rs    *)
(* 202-213), in the /v1/prove handler (tinyzkp_api.rs 1214-1241) and in    *)
(* /v1/domain/plan (840-846).                                              *)
(***************************************************************************)
BaseOff ==
    /\ PipelineOff
    /\ RowsOff
    /\ a_verdicts = <<>>
    /\ AuthzOff
    /\ ApiOff
    /\ CostOff
    /\ CancelOff
    /\ ConcOff

RECURSIVE BitLen(_)
\* the number of bits of n: the width less its leading zeros
BitLen(n) == IF n = 0 THEN 0 ELSE 1 + BitLen(n \div 2)

\* usize::next_power_of_two: one more than usize::MAX >> leading_zeros(n - 1),
\* wrapping around in a build without overflow checks
std_next_power_of_two(n) ==
    IF n <= 1 THEN 1 ELSE (Shr(USIZE_MAX, IntBits - BitLen(n - 1)) + 1) % (2 ^ IntBits)

next_pow2(n) == IF n <= 1 THEN 1 ELSE std_next_power_of_two(n)

\* whether the increment that ends either helper overflows a usize
SizeOverflows(n) == n >= 1 /\ smeared(n) = USIZE_MAX

u_rest == <<zeta_shift, p_vars, file, tampered, io_proof, v_vars, s_vars, r_vars, a_verdicts,
           d_vars, k_vars, c_vars, n_vars, j_vars, t_vars, z_vars>>

U_Fail(pc, why) ==
    /\ u_pc' = pc
    /\ u_err' = why

\* N from the row count; an overflowing increment panics in a build with
\* overflow checks and wraps around in one without.
U_Size ==
    /\ u_pc = "start"
    /\ IF u_in.entry = "api" /\ u_in.rows > st.max_rows
       THEN U_Fail("failed", "RowsLimit") /\ UNCHANGED u_n
       ELSE LET sized == IF u_in.entry = "cli" THEN next_power_of_two(u_in.rows)
                         ELSE IF u_in.entry = "plan"
                              THEN next_pow2(IF u_in.rows > 1 THEN u_in.rows ELSE 1)
                              ELSE next_pow2(u_in.rows)
            IN  \/ /\ u_n' = sized
                   /\ u_pc' = "sized"
                   /\ UNCHANGED u_err
                \/ /\ SizeOverflows(u_in.rows)
                   /\ U_Fail("panicked", "overflow")
                   /\ UNCHANGED u_n
    /\ UNCHANGED <<u_in, u_omega, u_rest>>

\* The generator: --omega when the command line gives one, else the field's
\* root of unity for N; the command line prover panics when there is none,
\* the handlers answer 400.
U_Root ==
    /\ u_pc = "sized"
    /\ IF u_in.entry = "cli" /\ u_in.omega # 0
       THEN u_omega' = u_in.omega /\ u_pc' = "rooted" /\ UNCHANGED u_err
       ELSE IF get_root_of_unity(u_n) = 0
            THEN /\ IF u_in.entry = "cli" THEN U_Fail("panicked", "NoRootOfUnity")
                    ELSE U_Fail("failed", "NoRootOfUnity")
                 /\ UNCHANGED u_omega
            ELSE /\ u_omega' = get_root_of_unity(u_n)
                 /\ u_pc' = IF u_in.entry = "plan" THEN "planned" ELSE "rooted"
                 /\ UNCHANGED u_err
    /\ UNCHANGED <<u_in, u_n, u_rest>>

\* prover.rs 213: the command line prover validates, then goes on to prove.
U_Validate ==
    /\ u_pc = "rooted"
    /\ u_in.entry = "cli"
    /\ IF validate_domain_params(u_n, u_omega, u_in.zh_c) = "Ok"
       THEN u_pc' = "proving" /\ UNCHANGED u_err
       ELSE U_Fail("failed", "InvalidDomain")
    /\ UNCHANGED <<u_in, u_n, u_omega, u_rest>>

\* tinyzkp_api.rs 1309-1344: the handler puts N, omega and zh_c into the
\* Domain and calls the prover.
U_ApiProve ==
    /\ u_pc = "rooted"
    /\ u_in.entry = "api"
    /\ u_pc' = "proving"
    /\ UNCHANGED <<u_in, u_n, u_omega, u_err, u_rest>>

\* row counts around the powers of two and at the ends of the usize range
RowCounts == {0, 1, 2, 3, 4, 5, 1023, 1024, 1025, I64_MAX, I64_MAX + 1, I64_MAX + 2, USIZE_MAX}

InitDomain ==
    /\ BaseOff
    /\ AgentOff
    /\ CanonOff
    /\ u_in \in [entry : {"cli", "api", "plan"}, rows : RowCounts,
                 omega : 0 .. (FieldP - 1), zh_c : 0 .. (FieldP - 1)]
    /\ u_in.entry # "cli" => u_in.omega = 0
    /\ u_pc = "start"
    /\ u_n = 0
    /\ u_omega = 0
    /\ u_err = "none"

NextDomain ==
    \/ U_Size
    \/ U_Root
    \/ U_Validate
    \/ U_ApiProve

SpecDomain == InitDomain /\ [][NextDomain]_vars

(***************************************************************************)
(* The authorization agent (zk-agent): criteria, the decision and the      *)
(* computation trace.  u64 and i64 keep IntBits bits, u32 half of that;    *)
(* the trace's registers are elements of a prime field larger than u64.    *)
(***************************************************************************)
HalfBits == IntBits \div 2
ScalarP == 2147483647

as_u64(v) == IF v < 0 THEN v + 2 ^ IntBits ELSE v
as_u32(v) == v % (2 ^ HalfBits)
F_from_u64(v) == v % ScalarP

\* a JSON number is an integer literal here; serde_json gives it as i64 when
\* it fits one and as u64 when it is not negative
JInt(n) == [t |-> "int", v |-> n]
JArr(xs) == [t |-> "arr", xs |-> xs]
JStr == [t |-> "str"]
is_i64(j) == j.t = "int" /\ j.v >= I64_MIN /\ j.v <= I64_MAX
is_u64(j) == j.t = "int" /\ j.v >= 0 /\ j.v <= USIZE_MAX

ComparisonOps == {"eq", "neq", "lt", "lte", "gt", "gte"}
ParseError == [op |-> "error"]

parse_comparison(op, field, arg) ==
    IF is_i64(arg) THEN [op |-> op, field |-> field, value |-> arg.v] ELSE ParseError

parse_in(field, arg) ==
    IF arg.t # "arr" THEN ParseError
    ELSE IF \E i \in DOMAIN arg.xs : ~is_u64(JInt(arg.xs[i])) THEN ParseError
    ELSE [op |-> "in", field |-> field, values |-> [i \in DOMAIN arg.xs |-> as_u32(arg.xs[i])]]

\* a criterion of the policy JSON is {op: [field, arg]}
from_json(json) ==
    IF json.op \in ComparisonOps THEN parse_comparison(json.op, json.field, json.arg)
    ELSE IF json.op = "in" THEN parse_in(json.field, json.arg)
    ELSE ParseError

KnownFields == {"age_years", "sex", "primary_icd10", "pregnant", "pos", "units"}

\* only called for a known field; evaluate answers an error for any other
get_field_value(features, field) ==
    CASE field = "age_years" -> features.age_years
      [] field = "sex" -> features.sex
      [] field = "primary_icd10" -> features.primary_icd10
      [] field = "pregnant" -> features.pregnant
      [] field = "pos" -> features.pos
      [] field = "units" -> features.units

Truth(b) == IF b THEN "true" ELSE "false"

evaluate(c, features) ==
    IF c.field \notin KnownFields THEN "error"
    ELSE LET patient_val == get_field_value(features, c.field)
         IN  CASE c.op = "eq" -> Truth(patient_val = c.value)
               [] c.op = "neq" -> Truth(patient_val # c.value)
               [] c.op = "lt" -> Truth(patient_val < c.value)
               [] c.op = "lte" -> Truth(patient_val <= c.value)
               [] c.op = "gt" -> Truth(patient_val > c.value)
               [] c.op = "gte" -> Truth(patient_val >= c.value)
               [] c.op = "in" -> Truth(\E i \in DOMAIN c.values : c.values[i] = as_u32(patient_val))

extract_patient_value(c, features) == F_from_u64(as_u64(get_field_value(features, c.field)))

extract_policy_value(c) ==
    IF c.op = "in"
    THEN (IF c.values = <<>> THEN F_from_u64(0) ELSE F_from_u64(c.values[1]))
    ELSE F_from_u64(as_u64(c.value))

\* the decision tree with the prior authorization flag looked at before the
\* administrative rules
from_logic_pa_first(medical_ok, requires_pa, admin_ok) ==
    IF ~medical_ok THEN "DENY"
    ELSE IF requires_pa THEN "NEEDS_PA"
    ELSE IF ~admin_ok THEN "DENY"
    ELSE "APPROVE"

from_logic(medical_ok, requires_pa, admin_ok) ==
    IF ~medical_ok THEN "DENY"
    ELSE IF ~admin_ok THEN "DENY"
    ELSE IF requires_pa THEN "NEEDS_PA"
    ELSE "APPROVE"

to_u8(result) == CASE result = "APPROVE" -> 1 [] result = "NEEDS_PA" -> 2 [] result = "DENY" -> 3

to_bytes(features) ==
    <<features.age_years, features.sex, features.primary_icd10, features.pregnant,
      features.pos, features.units>>

\* SHA-256 of the features' bytes followed by the salt, as a small digest
compute_patient_commitment(features, salt) == MixAll(0, to_bytes(features) \o <<salt>>)

\* a builder that goes on whatever commitment it is given
commitment_unchecked(computed, given) == TRUE

commitment_matches(computed, given) == computed = given

Bit(b) == IF b THEN 1 ELSE 0

\* whether a criterion of the policy cannot be parsed or evaluated
Unusable(json, features) ==
    from_json(json) = ParseError \/ evaluate(from_json(json), features) = "error"

Passes(json, features) == evaluate(from_json(json), features) = "true"

RECURSIVE inclusion_rows(_, _, _, _)
\* the rows of criteria i.. of the inclusion list, given the product so far
inclusion_rows(cs, features, i, running_and) ==
    IF i > Len(cs) THEN <<>>
    ELSE LET c == from_json(cs[i])
             result_field == Bit(Passes(cs[i], features))
             next_and == (running_and * result_field) % ScalarP
         IN  << <<F_from_u64(i - 1 + 2), extract_patient_value(c, features),
                  extract_policy_value(c), result_field, next_and, 0>> >>
             \o inclusion_rows(cs, features, i + 1, next_and)

RECURSIVE exclusion_rows(_, _, _, _, _)
exclusion_rows(cs, features, i, medical_inclusion_ok, running_or) ==
    IF i > Len(cs) THEN <<>>
    ELSE LET c == from_json(cs[i])
             hits == Passes(cs[i], features)
             next_or == IF hits THEN 1 ELSE running_or
         IN  << <<F_from_u64(100 + i - 1), extract_patient_value(c, features),
                  extract_policy_value(c), Bit(hits), medical_inclusion_ok, next_or>> >>
             \o exclusion_rows(cs, features, i + 1, medical_inclusion_ok, next_or)

\* the two checks of a builder that leaves the daily units unchecked
build_admin_rows_pos_only(features, admin_rules, medical_inclusion_ok, exclusion_hit) ==
    LET pos_ok == Bit(\E i \in DOMAIN admin_rules.pos_allowed :
                          admin_rules.pos_allowed[i] = features.pos)
        first == IF admin_rules.pos_allowed = <<>> THEN 0 ELSE admin_rules.pos_allowed[1]
    IN  [rows |-> << <<200, F_from_u64(features.pos), F_from_u64(first), pos_ok,
                       medical_inclusion_ok, exclusion_hit>>,
                     <<201, F_from_u64(features.units),
                       F_from_u64(admin_rules.max_units_per_day), 1,
                       medical_inclusion_ok, exclusion_hit>> >>,
         admin_ok |-> pos_ok]

build_admin_rows(features, admin_rules, medical_inclusion_ok, exclusion_hit) ==
    LET pos_ok == Bit(\E i \in DOMAIN admin_rules.pos_allowed :
                          admin_rules.pos_allowed[i] = features.pos)
        first == IF admin_rules.pos_allowed = <<>> THEN 0 ELSE admin_rules.pos_allowed[1]
        units_ok == Bit(features.units <= admin_rules.max_units_per_day)
    IN  [rows |-> << <<200, F_from_u64(features.pos), F_from_u64(first), pos_ok,
                       medical_inclusion_ok, exclusion_hit>>,
                     <<201, F_from_u64(features.units),
                       F_from_u64(admin_rules.max_units_per_day), units_ok,
                       medical_inclusion_ok, exclusion_hit>> >>,
         admin_ok |-> (pos_ok * units_ok) % ScalarP]

Failed(why) == [err |-> why, trace |-> <<>>, result |-> "none"]

build(features, policy, salt, policy_hash, patient_commitment) ==
    LET computed == compute_patient_commitment(features, salt)
    IN
    IF ~commitment_matches(computed, patient_commitment)
    THEN Failed("Patient commitment mismatch!")
    ELSE IF \E i \in DOMAIN policy.inclusion : Unusable(policy.inclusion[i], features)
    THEN Failed("inclusion criterion")
    ELSE IF \E i \in DOMAIN policy.exclusion : Unusable(policy.exclusion[i], features)
    THEN Failed("exclusion criterion")
    ELSE
    LET incl == inclusion_rows(policy.inclusion, features, 1, 1)
        medical_inclusion_ok == IF incl = <<>> THEN 1 ELSE incl[Len(incl)][5]
        excl == exclusion_rows(policy.exclusion, features, 1, medical_inclusion_ok, 0)
        exclusion_hit == IF excl = <<>> THEN 0 ELSE excl[Len(excl)][6]
        admin == build_admin_rows(features, policy.admin_rules, medical_inclusion_ok,
                                  exclusion_hit)
        medical_ok_bool == medical_inclusion_ok = 1 /\ exclusion_hit = 0
        admin_ok_bool == admin.admin_ok = 1
        final_result == from_logic(medical_ok_bool, policy.requires_pa, admin_ok_bool)
    IN  [err |-> "none",
         trace |-> << <<0, F_from_u64(computed), F_from_u64(patient_commitment), 1, 1, 0>>,
                      <<1, F_from_u64(policy_hash), F_from_u64(policy_hash), 1, 1, 0>> >>
                   \o incl \o excl \o admin.rows
                   \o << <<999, Bit(medical_ok_bool), Bit(policy.requires_pa),
                           F_from_u64(to_u8(final_result)), admin.admin_ok, 0>> >>,
         result |-> final_result]

t_rest == <<zeta_shift, p_vars, file, tampered, io_proof, v_vars, s_vars, r_vars, a_verdicts,
           d_vars, k_vars, c_vars, n_vars, j_vars, u_vars, z_vars>>

\* AuthorizationResult::from_logic on its own
T_Logic ==
    /\ t_pc = "start"
    /\ t_in.call = "from_logic"
    /\ t_out' = [result |-> from_logic(t_in.medical_ok, t_in.requires_pa, t_in.admin_ok)]
    /\ t_pc' = "returned"
    /\ UNCHANGED <<t_in, t_rest>>

\* one criterion: Criterion::from_json, then evaluate and extract_policy_value
T_Criterion ==
    /\ t_pc = "start"
    /\ t_in.call = "criterion"
    /\ LET c == from_json(t_in.json)
       IN  t_out' = IF c = ParseError THEN [parsed |-> FALSE]
                    ELSE [parsed |-> TRUE, passes |-> evaluate(c, t_in.features),
                          policy_val |-> extract_policy_value(c)]
    /\ t_pc' = "returned"
    /\ UNCHANGED <<t_in, t_rest>>

T_Build ==
    /\ t_pc = "start"
    /\ t_in.call = "build"
    /\ t_out' = build(t_in.features, t_in.policy, t_in.salt, t_in.policy_hash,
                      t_in.patient_commitment)
    /\ t_pc' = "returned"
    /\ UNCHANGED <<t_in, t_rest>>

Patient(age, icd, units) ==
    [age_years |-> age, sex |-> 1, primary_icd10 |-> icd, pregnant |-> 0, pos |-> 11,
     units |-> units]

Patients == {Patient(age, 1002, units) : age \in {17, 18}, units \in {1, 2}}

\* thresholds over the whole i64 range, one u64 above it, lists with members
\* below and above the u32 range, and arguments of the wrong kind
CriterionArgs ==
    {JInt(n) : n \in {I64_MIN, -1, 0, 17, 18, I64_MAX, I64_MAX + 1}}
    \cup {JArr(xs) : xs \in {<<>>, <<18>>, <<1, 17>>, <<2 ^ HalfBits + 18>>,
                             <<2 ^ HalfBits, 17>>, <<-1>>}}
    \cup {JStr}

CriterionJsons ==
    [op : ComparisonOps \cup {"in", "like"}, field : {"age_years", "units", "height"},
     arg : CriterionArgs]

\* the criteria the policies of a build are made of
PolicyCriteria ==
    {[op |-> "gte", field |-> "age_years", arg |-> JInt(18)],
     [op |-> "in", field |-> "primary_icd10", arg |-> JArr(<<1001, 1002>>)],
     [op |-> "eq", field |-> "height", arg |-> JInt(1)]}

RECURSIVE SeqsUpTo(_, _)
SeqsUpTo(S, n) ==
    IF n = 0 THEN {<<>>}
    ELSE SeqsUpTo(S, n - 1) \cup {Append(q, x) : q \in SeqsUpTo(S, n - 1), x \in S}

Policies ==
    [requires_pa : BOOLEAN, inclusion : SeqsUpTo(PolicyCriteria, MaxCrit),
     exclusion : SeqsUpTo(PolicyCriteria, MaxCrit),
     admin_rules : [pos_allowed : {<<11>>, <<22, 23>>}, max_units_per_day : {1}]]

InitAgent ==
    /\ BaseOff
    /\ DomainOff
    /\ CanonOff
    /\ t_in \in [call : {"from_logic"}, medical_ok : BOOLEAN, requires_pa : BOOLEAN,
                 admin_ok : BOOLEAN]
             \cup [call : {"criterion"}, json : CriterionJsons, features : Patients]
             \cup [call : {"build"}, features : Patients, policy : Policies, salt : {7},
                   policy_hash : {3}, patient_commitment : 0 .. (FieldP - 1)]
    /\ t_pc = "start"
    /\ t_out = <<>>

NextAgent ==
    \/ T_Logic
    \/ T_Criterion
    \/ T_Build

SpecAgent == InitAgent /\ [][NextAgent]_vars

(***************************************************************************)
(* Canonical policy JSON (policy.rs 54-80).  A JSON text is a sequence of  *)
(* tokens: braces, colons, commas, white space, quoted keys "a" and "b",   *)
(* the numbers "1" and "2", and a bare word that is no JSON value.         *)
(***************************************************************************)
JsonKeys == {"a", "b"}
JsonNumbers == {"1", "2"}
WhiteSpace == {" ", "\n"}

\* the byte order of the keys, which is the order of a BTreeMap
KeyRank(k) == CASE k = "a" -> 1 [] k = "b" -> 2

\* an insertion that keeps the order in which the keys first came
map_insert_at_end(m, k, v) ==
    IF \E i \in DOMAIN m : m[i][1] = k
    THEN [i \in DOMAIN m |-> IF m[i][1] = k THEN <<k, v>> ELSE m[i]]
    ELSE Append(m, <<k, v>>)

\* serde_json's Map is a BTreeMap: sorted by key, a later member replaces an
\* earlier one of the same key
map_insert(m, k, v) ==
    LET Before(p) == KeyRank(p[1]) < KeyRank(k)
        After(p) == KeyRank(p[1]) > KeyRank(k)
    IN  SelectSeq(m, Before) \o << <<k, v>> >> \o SelectSeq(m, After)

NotJson == [ok |-> FALSE]

RECURSIVE members_from(_, _, _)
\* the members k : v , k : v ... of ts from position i on, inserted into m
members_from(ts, i, m) ==
    IF i + 2 > Len(ts) THEN NotJson
    ELSE IF ts[i] \notin JsonKeys \/ ts[i + 1] # ":" \/ ts[i + 2] \notin JsonNumbers
    THEN NotJson
    ELSE LET next == map_insert(m, ts[i], ts[i + 2])
         IN  IF i + 2 = Len(ts) THEN [ok |-> TRUE, value |-> next]
             ELSE IF ts[i + 3] # "," THEN NotJson
             ELSE members_from(ts, i + 4, next)

\* serde_json::from_str to a Value: white space between tokens is skipped
from_str(text) ==
    LET Black(t) == t \notin WhiteSpace
        ts == SelectSeq(text, Black)
    IN  IF Len(ts) < 2 THEN NotJson
        ELSE IF ts[1] # "{" \/ ts[Len(ts)] # "}" THEN NotJson
        ELSE IF Len(ts) = 2 THEN [ok |-> TRUE, value |-> <<>>]
        ELSE members_from(SubSeq(ts, 2, Len(ts) - 1), 1, <<>>)

RECURSIVE members_to(_, _)
members_to(m, i) ==
    IF i > Len(m) THEN <<>>
    ELSE (IF i > 1 THEN <<",">> ELSE <<>>) \o <<m[i][1], ":", m[i][2]>> \o members_to(m, i + 1)

\* serde_json::to_string: compact, the members in the map's order
to_string(value) == <<"{">> \o members_to(value, 1) \o <<"}">>

canonicalize_json(json) ==
    LET value == from_str(json)
    IN  IF ~value.ok THEN [ok |-> FALSE, s |-> <<>>]
        ELSE [ok |-> TRUE, s |-> to_string(value.value)]

TokenByte(t) ==
    CASE t = "{" -> 1 [] t = "}" -> 2 [] t = ":" -> 3 [] t = "," -> 4
      [] t = "a" -> 0 [] t = "b" -> 1 [] t = "1" -> 2 [] t = "2" -> 3
      [] OTHER -> 4

\* SHA-256 of the canonical string, as a small digest
compute_policy_hash(canonical_json) ==
    MixAll(0, [i \in DOMAIN canonical_json |-> TokenByte(canonical_json[i])])

RECURSIVE RenderMembers(_, _, _)
RenderMembers(ms, i, gap) ==
    IF i > Len(ms) THEN <<>>
    ELSE (IF i > 1 THEN <<",">> \o gap ELSE <<>>)
         \o <<ms[i][1], ":">> \o gap \o <<ms[i][2]>> \o RenderMembers(ms, i + 1, gap)

\* the text of an object in a style: compact, spaced, or one member a line
Render(d) ==
    LET gap == IF d.style = "compact" THEN <<>> ELSE <<" ">>
        brk == IF d.style = "lines" THEN <<"\n", " ">> ELSE <<>>
        whole == <<"{">> \o brk \o RenderMembers(d.members, 1, gap \o brk) \o brk \o <<"}">>
    IN  CASE d.damage = "none" -> whole
          [] d.damage = "unclosed" -> SubSeq(whole, 1, Len(whole) - 1)
          [] d.damage = "bare_word" -> SubSeq(whole, 1, Len(whole) - 1) \o <<",", "a", ":", "json", "}">>
          [] d.damage = "no_colon" -> <<"{", "a", "1", "}">>

MemberLists ==
    {<<>>, << <<"a", "1">> >>, << <<"b", "2">> >>,
     << <<"a", "1">>, <<"b", "2">> >>, << <<"b", "2">>, <<"a", "1">> >>,
     << <<"a", "2">>, <<"b", "2">> >>, << <<"b", "1">>, <<"a", "1">> >>,
     << <<"a", "1">>, <<"a", "2">> >>, << <<"a", "2">>, <<"a", "1">> >>,
     << <<"b", "2">>, <<"a", "1">>, <<"b", "1">> >>}

JsonStyles == {"compact", "spaced", "lines"}

z_rest == <<zeta_shift, p_vars, file, tampered, io_proof, v_vars, s_vars, r_vars, a_verdicts,
           d_vars, k_vars, c_vars, n_vars, j_vars, u_vars, t_vars>>

\* canonicalize_json on two texts
Z_Canonicalize ==
    /\ z_pc = "start"
    /\ z_out' = [a |-> canonicalize_json(Render(z_in.a)),
                 b |-> canonicalize_json(Render(z_in.b))]
    /\ z_pc' = "once"
    /\ UNCHANGED <<z_in, z_rest>>

\* canonicalize_json on the canonical string of the first text
Z_Again ==
    /\ z_pc = "once"
    /\ z_out.a.ok
    /\ z_out' = [a |-> z_out.a, b |-> z_out.b, aa |-> canonicalize_json(z_out.a.s)]
    /\ z_pc' = "twice"
    /\ UNCHANGED <<z_in, z_rest>>

\* the policy hashes of the two canonical strings
Z_Hash ==
    /\ z_pc = "once"
    /\ z_out.a.ok
    /\ z_out.b.ok
    /\ z_out' = [a |-> z_out.a, b |-> z_out.b,
                 hash_a |-> compute_policy_hash(z_out.a.s),
                 hash_b |-> compute_policy_hash(z_out.b.s)]
    /\ z_pc' = "hashed"
    /\ UNCHANGED <<z_in, z_rest>>

InitCanon ==
    /\ BaseOff
    /\ DomainOff
    /\ AgentOff
    /\ z_in \in [a : [members : MemberLists, style : JsonStyles,
                      damage : {"none", "unclosed", "bare_word", "no_colon"}],
                 b : [members : MemberLists, style : JsonStyles, damage : {"none"}]]
    /\ z_pc = "start"
    /\ z_out = <<>>

NextCanon ==
    \/ Z_Canonicalize
    \/ Z_Again
    \/ Z_Hash

SpecCanon == InitCanon /\ [][NextCanon]_vars

(***************************************************************************)
(* Properties.                                                             *)
(***************************************************************************)
VersionOf(buf) == buf[9] * 256 + buf[10]

\* C1: on every verify entry point the first 8 bytes are compared with the
\* magic before anything else (a difference is a bad-magic rejection with no
\* gate passed), then bytes 8..10 are compared with version 2 (a difference
\* is an unsupported-version rejection with only the magic gate passed), and
\* the payload is deserialized only after both gates passed.
C1_GatesBeforePayload ==
    LET long == Len(v_buf) >= 10
        ended == v_pc \in {"Reject", "Parsed"}
        magic_ok == SubSeq(v_buf, 1, 8) = FILE_MAGIC
        version_ok == VersionOf(v_buf) = 2
        at_payload == v_pc = "Parsed" \/ (v_pc = "Reject" /\ v_reason = "EncodingError")
    IN  /\ (ended /\ long /\ ~magic_ok) =>
              (v_pc = "Reject" /\ v_reason = "BadMagic" /\ v_hist = <<>>)
        /\ (ended /\ long /\ magic_ok /\ ~version_ok) =>
              (v_pc = "Reject" /\ v_reason = "UnsupportedVersion" /\ v_hist = <<"MagicOk">>)
        /\ (ended /\ long /\ magic_ok /\ version_ok) =>
              (at_payload /\ SubSeq(v_hist, 1, 2) = <<"MagicOk", "VersionOk">>)
        /\ at_payload => (long /\ magic_ok /\ version_ok)

\* C1 witness: a container whose high version byte was changed is rejected
\* for its version after the magic gate passed.
C1_Witness ==
    /\ v_pc = "Reject"
    /\ v_reason = "UnsupportedVersion"
    /\ v_hist = <<"MagicOk">>
    /\ Len(v_buf) >= 10
    /\ v_buf[9] # 0
    /\ v_buf[10] = 2

\* C2: reading an unchanged container written from a proof gives back a proof
\* equal to the written one in every field, and the read does not fail.
C2_RoundTrip ==
    (~tampered /\ io_proof # NoIo /\ v_pc \in {"Reject", "Parsed"}) =>
        (v_pc = "Parsed" /\ v_proof = io_proof)

\* C2 witness: a proof with a Z commitment, evaluations and opening proofs
\* was written, read back and parsed.
C2_Witness ==
    /\ ~tampered
    /\ io_proof # NoIo
    /\ v_pc = "Parsed"
    /\ v_proof.z_comm # <<>>
    /\ Len(v_proof.evals) = MaxLen
    /\ Len(v_proof.opening_proofs) > 0
    /\ Len(v_proof.wire_comms) > 0

DigestsMatch(proof, srs) ==
    /\ proof.header.srs_g1_digest = srs_g1_digest(srs.g1)
    /\ proof.header.srs_g2_digest = srs_g2_digest(srs.g2)

\* C3: on each verify entry point a parsed proof whose header digests differ
\* from those of the loaded SRS goes nowhere but to the SrsMismatch rejection:
\* neither the shape check nor the protocol verifier sees it.
C3_SrsMismatchRejectedFirst ==
    (Len(v_hist) >= 3 /\ v_hist[3] = "Parsed" /\ ~DigestsMatch(v_proof, v_srs)) =>
        \/ v_pc = "Parsed"
        \/ v_pc = "Reject" /\ v_reason = "SrsMismatch" /\ Len(v_hist) = 3

ShapeCount(proof, shift) ==
    LET k == Len(proof.wire_comms)
        s == Len(proof.eval_points)
        z == IF proof.z_comm # <<>> THEN 1 ELSE 0
    IN  (k + z) * s + s + (IF shift /\ z = 1 THEN s ELSE 0)

ShapeHolds(proof, shift) ==
    /\ Len(proof.evals) = ShapeCount(proof, shift)
    /\ Len(proof.opening_proofs) = ShapeCount(proof, shift)

AllPhases ==
    <<"MagicOk", "VersionOk", "Parsed", "SrsOk", "ShapeOk", "ReplayedTranscript",
      "BatchedPairingOk", "Accepted">>

\* C5: the verifier is in Accepted only after it passed the magic, version,
\* parse, SRS digest, shape, replay and pairing phases, in that order.
C5_AcceptedAfterAllPhases ==
    v_pc = "Accepted" => v_hist = AllPhases

PhaseEdge(a, b, perm) ==
    \/ a = "Init" /\ b = "CommittedWires"
    \/ a = "CommittedWires" /\ b = "CommittedZ" /\ perm
    \/ a = "CommittedWires" /\ b = "CommittedQ" /\ ~perm
    \/ a = "CommittedZ" /\ b = "CommittedQ"
    \/ a = "CommittedQ" /\ b = "OpenedAtZeta"
    \/ a = "OpenedAtZeta" /\ b = "Serialized"

\* What the transcript has seen when the prover is in a phase.
LogAt(ph, perm) ==
    LET wires == <<"domain", "srs", "wires">>
        zed == IF perm THEN <<"beta", "gamma", "z">> ELSE <<>>
    IN  CASE ph = "Init" -> <<>>
          [] ph = "CommittedWires" -> wires
          [] ph = "CommittedZ" -> wires \o zed
          [] ph = "CommittedQ" -> wires \o zed \o <<"alpha", "q">>
          [] OTHER -> wires \o zed \o <<"alpha", "q", "zeta", "v">>

\* C6: a prove call goes Init, CommittedWires, CommittedZ when the AIR has a
\* permutation argument, CommittedQ, OpenedAtZeta, Serialized, with no phase
\* skipped or repeated; the quotient is committed only after the wires were
\* absorbed and, with a permutation argument, beta and gamma were squeezed
\* and the commitment to Z absorbed.
C6_PhaseOrder ==
    /\ [][phase' # phase =>
            \/ PhaseEdge(phase, phase', p_in.perm)
            \/ phase' = "Init" /\ calls' = calls + 1]_vars
    /\ [](phase # "ProtocolError" /\ (p_pc # "failed" => tr.log = LogAt(phase, p_in.perm)))

\* C6 witness: a prove call with a permutation argument reached Serialized.
C6_Witness ==
    /\ phase = "Serialized"
    /\ p_in.perm
    /\ pw.z_comm # <<>>

Replayed == \E i \in 1 .. Len(v_hist) : v_hist[i] = "ReplayedTranscript"

\* C7: the verifier's replay absorbs and squeezes in the prover's order, and
\* on the unchanged output of a prove call it ends with the prover's
\* transcript and the prover's beta, gamma, alpha, zeta and v.
C7_TranscriptAgreement ==
    /\ Replayed => v_tr.log = LogAt("Serialized", v_proof.z_comm # <<>>)
    /\ (Replayed /\ ~tampered /\ p_pc = "done") =>
          /\ v_tr = tr
          /\ v_ch = [beta |-> pw.beta, gamma |-> pw.gamma, alpha |-> pw.alpha,
                     zeta |-> pw.zeta, v |-> pw.v]

\* C7 witness: the verifier replayed the unchanged proof of a call with a
\* permutation argument.
C7_Witness ==
    /\ Replayed
    /\ ~tampered
    /\ p_pc = "done"
    /\ v_proof.z_comm # <<>>
    /\ v_tr.log = tr.log

\* The proof file holds the beginning of the container and not all of it.
PartialContainer ==
    LET whole == FILE_MAGIC \o to_be_bytes(FILE_VERSION) \o payload
    IN  /\ file # Absent
        /\ payload # <<>>
        /\ Len(Content(file)) < Len(whole)
        /\ Content(file) = SubSeq(whole, 1, Len(Content(file)))

\* C8: a prove call that failed leaves no partial artifact: the proof file
\* does not hold a beginning of the container without the rest.
C8_NoPartialArtifact ==
    (p_pc = "failed" /\ ~tampered) => ~PartialContainer

C10_Restartable ==
    \A i \in 1 .. Len(s_done) :
        /\ s_done[i].rows = s_src
        /\ s_done[i].rows = s_done[1].rows
        /\ LET bl == s_done[i].blocks
           IN  \A j \in 1 .. Len(bl) :
                   /\ bl[j].first = (j - 1) * s_b
                   /\ bl[j].len >= 1
                   /\ bl[j].len <= s_b
                   /\ j < Len(bl) => bl[j].len = s_b

\* C10 witness: two scans completed, one was dropped part-way, and the last
\* block is shorter than b_blk.
C10_Witness ==
    /\ Len(s_done) = 2
    /\ s_abandons >= 1
    /\ Len(s_src) > s_b
    /\ Len(s_src) % s_b # 0

WrongArityAt(i) == i <= Len(r_rows) /\ ~ArityOk(r_rows[i], r_k)

NotANumberAt(i) == i <= Len(r_rows) /\ ~AllNumeric(r_rows[i])

\* C11: a prove call over a witness stream whose first bad row has the wrong
\* number of columns ends by returning RowShape to the caller, it does not
\* panic; one whose first bad row holds a token that is no number and that
\* returns, returns RowParse; neither emits a proof.
C11_RowErrorsReturned ==
    LET bad == {i \in 1 .. Len(r_rows) : WrongArityAt(i) \/ NotANumberAt(i)}
        first == CHOOSE i \in bad : \A j \in bad : i <= j
        ended == r_pc \in {"returned", "panicked"}
    IN  (ended /\ bad # {}) =>
            /\ r_out # "proof"
            /\ (WrongArityAt(first) /\ ~NotANumberAt(first)) =>
                  (r_pc = "returned" /\ r_out = "RowShape")
            /\ (NotANumberAt(first) /\ ~WrongArityAt(first) /\ r_pc = "returned") =>
                  r_out = "RowParse"

\* C12: the verdict for a container depends on the proof and the loaded SRS
\* only: a verifier that differs from an earlier one in nothing but its
\* configured wires basis and zh_c ends with the earlier one's verdict.
C12_HeaderAuthoritative ==
    \A i \in 1 .. Len(a_verdicts) :
        /\ a_verdicts[i].verdict = a_verdicts[1].verdict
        /\ v_pc \in {"Accepted", "Reject"} => Verdict = a_verdicts[i].verdict

\* C12 witness: a proof made with the Evaluation basis was accepted by a
\* verifier configured for Evaluation and now by one configured for
\* Coefficient and another zh_c.
C12_Witness ==
    /\ Len(a_verdicts) >= 1
    /\ a_verdicts[1].cfg.basis = "Evaluation"
    /\ a_verdicts[1].verdict = "ok"
    /\ v_pc = "Accepted"
    /\ v_cfg.basis = "Coefficient"
    /\ v_cfg.zh_c # v_proof.header.zh_c
    /\ v_proof.header.basis_wires = "Evaluation"

\* C13: `authz verify` reports success only for a record whose policy hash,
\* patient commitment and claimed result are the ones its proof was made for.
C13_RecordBoundToProof ==
    (d_pc = "verified" /\ d_out = "VERIFICATION SUCCESSFUL") =>
        /\ d_rec.claimed_result = d_for.claimed_result
        /\ d_rec.policy_hash = d_for.policy_hash
        /\ d_rec.patient_commitment = d_for.patient_commitment


PaidEndpoints == {"prove", "verify", "inspect"}

\* C14: once a rotation has replaced a key, every request that presents the
\* replaced key to /v1/prove, /v1/verify or /v1/proof/inspect is answered
\* 401, and the key the rotation issued has the tier the replaced key had.
C14_ReplacedKeyRejected ==
    /\ (k_last.ep \in PaidEndpoints /\ k_last.replaced) => k_last.status = 401
    /\ \A i \in 1 .. Len(k_old) :
           k_old[i].new = k_cur => k_tier[k_cur] = k_old[i].tier

\* What the request costs beyond the free allowance left on the account,
\* priced in whole rows as calculate_cost prices.
UncoveredCost(account, rows, registers) ==
    LET ops == rows * registers
        free == st.pricing.free_monthly_ops - account.free_ops_used
        rows_paid == IF (ops - free) \div registers > 1 THEN (ops - free) \div registers ELSE 1
    IN  IF ops <= free THEN 0
        ELSE IF free > 0 THEN calculate_cost(rows_paid, registers, st.pricing)
        ELSE calculate_cost(rows, registers, st.pricing)

\* C15: /v1/prove answers 401 without an X-API-Key; when the cost beyond the
\* free allowance exceeds balance_cents it answers 402, the prover is not run
\* and the stored account record is the one from before the request; and a
\* request that is served carried a key and was covered.
C15_ProveNeedsKeyAndFunds ==
    k_last.ep = "prove" =>
        LET due == UncoveredCost(k_last.before, k_last.rows, k_last.registers)
        IN  /\ k_last.key = NoKey => k_last.status = 401
            /\ (k_last.key # NoKey /\ due > k_last.before.balance_cents) =>
                   /\ k_last.status = 402
                   /\ ~k_last.ran
                   /\ k_last.after = k_last.before
            /\ k_last.ran =>
                   /\ k_last.key # NoKey
                   /\ due <= k_last.before.balance_cents
                   /\ k_last.after.balance_cents = k_last.before.balance_cents - due

\* a request partly covered by what is left of the free allowance is refused
\* for lack of balance
C15_Witness ==
    /\ k_last.ep = "prove"
    /\ k_last.status = 402
    /\ k_last.before.free_ops_used > 0
    /\ k_last.before.free_ops_used < st.pricing.free_monthly_ops
    /\ k_last.after = k_last.before

\* C16: free_ops_used of every account counts the row operations served at
\* zero cost in the current calendar month only, so it is 0 again once the
\* month has changed.
C16_FreeAllowancePerMonth ==
    \A key \in Keys : k_acct[key].free_ops_used = k_free[key]

\* C17: the webhook of a completed checkout session raises balance_cents by
\* 1000, 6000 or 75000 cents for the pack small, medium or large, whatever
\* the case the accepted top-up request spelled the pack name in.
C17_PackCredits ==
    k_last.ep = "webhook" =>
        k_last.after.balance_cents - k_last.before.balance_cents =
            CASE to_lowercase(k_last.pack) = "small" -> 1000
              [] to_lowercase(k_last.pack) = "medium" -> 6000
              [] to_lowercase(k_last.pack) = "large" -> 75000


\* C18: for every rows and registers a usize can hold and every non-negative
\* pricing, calculate_cost answers at least base_cost_cents and never a
\* negative amount, no step of it wraps around (the casts of rows and
\* registers to i64 keep their values), and where nothing saturates the
\* answer is base_cost_cents plus the whole cents of ops * rate / 1,000,000.
C18_CostAtLeastBase ==
    c_pc = "answered" =>
        /\ c_out >= c_in.config.base_cost_cents
        /\ c_out >= 0
        /\ as_i64(c_in.rows) = c_in.rows
        /\ as_i64(c_in.registers) = c_in.registers
        /\ (c_in.rows <= 1048576 /\ c_in.registers <= 32
                /\ c_in.config.cost_per_million_ops_cents <= 10
                /\ c_in.config.base_cost_cents <= 1) =>
               c_out = c_in.config.base_cost_cents
                       + (c_in.rows * c_in.registers
                              * c_in.config.cost_per_million_ops_cents) \div 1000000


RECURSIVE Pow2AtLeast(_, _)
\* the smallest of p, 2p, 4p, ... that is at least m
Pow2AtLeast(p, m) == IF p >= m THEN p ELSE Pow2AtLeast(2 * p, m)

\* C21: the domain size either helper returns for a row count is the
\* smallest power of two that is at least max(rows, 1), for every row count
\* a usize can hold; computing it never fails.
C21_SmallestPowerOfTwo ==
    /\ u_pc \in {"sized", "rooted", "proving", "planned"} =>
           u_n = Pow2AtLeast(1, IF u_in.rows > 1 THEN u_in.rows ELSE 1)
    /\ u_err # "overflow"

RECURSIVE Times(_, _)
\* b multiplied e times into 1
Times(b, e) == IF e = 0 THEN 1 ELSE (b * Times(b, e - 1)) % FieldP

\* b^e in the field: for b not 0 the exponent counts modulo FieldP - 1
FieldPower(b, e) ==
    IF b % FieldP = 0 THEN (IF e = 0 THEN 1 % FieldP ELSE 0)
    ELSE Times(b % FieldP, e % (FieldP - 1))

DomainValid(n, w, c) ==
    /\ n > 0
    /\ c % FieldP # 0
    /\ FieldPower(w, n) = 1
    /\ n >= 2 => FieldPower(w, n \div 2) # 1

\* C22: a prove entry point reaches its proving step only with a domain
\* (N, omega, c) that has N > 0, c # 0, omega^N = 1 and, for N >= 2,
\* omega^(N/2) # 1; and the command line prover refuses a domain as invalid
\* exactly when one of these fails.
C22_ValidatedBeforeProving ==
    /\ u_pc = "proving" => DomainValid(u_n, u_omega, u_in.zh_c)
    /\ u_err = "InvalidDomain" => ~DomainValid(u_n, u_omega, u_in.zh_c)

\* C23: from_logic returns Deny when medical_ok is false, otherwise Deny
\* when admin_ok is false, otherwise NeedsPa when requires_pa is true,
\* otherwise Approve; Approve or NeedsPa only with medical_ok and admin_ok.
C23_DecisionTree ==
    (t_pc = "returned" /\ t_in.call = "from_logic") =>
        /\ ~t_in.medical_ok => t_out.result = "DENY"
        /\ (t_in.medical_ok /\ ~t_in.admin_ok) => t_out.result = "DENY"
        /\ (t_in.medical_ok /\ t_in.admin_ok /\ t_in.requires_pa) => t_out.result = "NEEDS_PA"
        /\ (t_in.medical_ok /\ t_in.admin_ok /\ ~t_in.requires_pa) => t_out.result = "APPROVE"
        /\ t_out.result \in {"APPROVE", "NEEDS_PA"} => (t_in.medical_ok /\ t_in.admin_ok)

C23_Witness ==
    /\ t_pc = "returned"
    /\ t_in.call = "from_logic"
    /\ t_in.medical_ok /\ t_in.requires_pa /\ ~t_in.admin_ok
    /\ t_out.result = "DENY"

Usable(policy, features) ==
    /\ \A i \in DOMAIN policy.inclusion : ~Unusable(policy.inclusion[i], features)
    /\ \A i \in DOMAIN policy.exclusion : ~Unusable(policy.exclusion[i], features)

Expected(policy, features) ==
    LET medical == /\ \A i \in DOMAIN policy.inclusion : Passes(policy.inclusion[i], features)
                   /\ ~\E i \in DOMAIN policy.exclusion : Passes(policy.exclusion[i], features)
        admin == /\ features.pos \in {policy.admin_rules.pos_allowed[i] :
                                          i \in DOMAIN policy.admin_rules.pos_allowed}
                 /\ features.units <= policy.admin_rules.max_units_per_day
    IN  IF ~medical \/ ~admin THEN "DENY"
        ELSE IF policy.requires_pa THEN "NEEDS_PA" ELSE "APPROVE"

Built == t_pc = "returned" /\ t_in.call = "build"

CommitmentGiven ==
    t_in.patient_commitment = compute_patient_commitment(t_in.features, t_in.salt)

Judged == t_pc = "returned" /\ t_in.call = "criterion"

\* the element of the trace's field that an integer denotes
F_from_i64(v) == IF v < 0 THEN ScalarP + v ELSE v % ScalarP

Related(op, a, b) ==
    CASE op = "eq" -> a = b
      [] op = "neq" -> a # b
      [] op = "lt" -> a < b
      [] op = "lte" -> a <= b
      [] op = "gt" -> a > b
      [] op = "gte" -> a >= b

\* C25: a comparison criterion over a known field passes exactly when the
\* patient's value stands in the named relation to the threshold of the policy
\* JSON, for every i64 threshold, and the policy value recorded for the trace
\* row equals that threshold; over an unknown field evaluate answers an error.
C25_ComparisonByThreshold ==
    (Judged /\ t_in.json.op \in ComparisonOps /\ is_i64(t_in.json.arg)) =>
        /\ t_out.parsed
        /\ t_in.json.field \in KnownFields =>
               /\ t_out.passes = Truth(Related(t_in.json.op,
                                               get_field_value(t_in.features, t_in.json.field),
                                               t_in.json.arg.v))
               /\ t_out.policy_val = F_from_i64(t_in.json.arg.v)
        /\ t_in.json.field \notin KnownFields => t_out.passes = "error"

\* C26: an 'in' criterion over a list of non-negative integers passes exactly
\* when the patient's value is one of the integers of the list as written.
C26_MemberOfListAsWritten ==
    (/\ Judged
     /\ t_in.json.op = "in"
     /\ t_in.json.arg.t = "arr"
     /\ \A i \in DOMAIN t_in.json.arg.xs : is_u64(JInt(t_in.json.arg.xs[i]))
     /\ t_in.json.field \in KnownFields) =>
        /\ t_out.parsed
        /\ t_out.passes = Truth(get_field_value(t_in.features, t_in.json.field)
                                    \in {t_in.json.arg.xs[i] : i \in DOMAIN t_in.json.arg.xs})

\* C27: build fails, with no trace and no result, whenever the commitment
\* recomputed from the features and the salt differs from the one passed in,
\* and returns a trace only when the two are equal.
C27_MismatchFails ==
    Built =>
        /\ ~CommitmentGiven => (t_out.err # "none" /\ t_out.trace = <<>> /\ t_out.result = "none")
        /\ t_out.trace # <<>> => CommitmentGiven

C27_Witness ==
    /\ Built
    /\ ~CommitmentGiven
    /\ Usable(t_in.policy, t_in.features)
    /\ t_out.err = "Patient commitment mismatch!"

\* the verifier read a beginning of the written container, of at least the
\* 10 bytes of magic and version, and not all of it
TruncatedRead ==
    /\ io_proof # NoIo
    /\ Len(v_buf) >= 10
    /\ Len(v_buf) < Len(write_proof(io_proof))
    /\ v_buf = SubSeq(write_proof(io_proof), 1, Len(v_buf))

\* C28: a container cut at any byte offset from 10 on is never read as a
\* proof: on either entry point the read ends in the encoding error.
C28_TruncatedNeverParsed ==
    (TruncatedRead /\ v_pc \notin {"idle", "open", "MagicOk", "VersionOk"}) =>
        (v_pc = "Reject" /\ v_reason = "EncodingError" /\ v_hist = <<"MagicOk", "VersionOk">>)

\* C28 witness: a container with opening proofs lost its last byte and the
\* command line verifier refused it with the encoding error.
C28_Witness ==
    /\ TruncatedRead
    /\ Len(v_buf) = Len(write_proof(io_proof)) - 1
    /\ Len(io_proof.opening_proofs) > 0
    /\ v_entry = "cli"
    /\ v_pc = "Reject"
    /\ v_reason = "EncodingError"

\* the value a list of members denotes for a key: that of the last member
\* with the key
Denoted(ms, k) ==
    LET at == {i \in DOMAIN ms : ms[i][1] = k}
    IN  IF at = {} THEN "none"
        ELSE ms[CHOOSE i \in at : \A j \in at : j <= i][2]

SameValue(ma, mb) == \A k \in JsonKeys : Denoted(ma, k) = Denoted(mb, k)

\* C29: two JSON texts that denote the same value, in any key order and with
\* any white space, have the same canonical string and so the same policy
\* hash; the canonical string has no white space and is its own canonical
\* string; a text that is not JSON gives an error.
C29_CanonicalForm ==
    /\ (z_pc # "start" /\ z_in.a.damage # "none") => ~z_out.a.ok
    /\ (z_pc # "start" /\ z_in.a.damage = "none") =>
           /\ z_out.a.ok /\ z_out.b.ok
           /\ \A i \in DOMAIN z_out.a.s : z_out.a.s[i] \notin WhiteSpace
           /\ SameValue(z_in.a.members, z_in.b.members) => z_out.a.s = z_out.b.s
           /\ z_out.a.s = z_out.b.s => SameValue(z_in.a.members, z_in.b.members)
    /\ z_pc = "twice" => (z_out.aa.ok /\ z_out.aa.s = z_out.a.s)
    /\ (z_pc = "hashed" /\ SameValue(z_in.a.members, z_in.b.members)) =>
           z_out.hash_a = z_out.hash_b

\* C29 witness: the same two members written in opposite orders, one text
\* compact and one spread over lines, got one canonical string and one hash.
C29_Witness ==
    /\ z_pc = "hashed"
    /\ z_in.a.members = << <<"b", "2">>, <<"a", "1">> >>
    /\ z_in.b.members = << <<"a", "1">>, <<"b", "2">> >>
    /\ z_in.a.style = "compact"
    /\ z_in.b.style = "lines"
    /\ z_out.a.s = <<"{", "a", ":", "1", ",", "b", ":", "2", "}">>
    /\ z_out.b.s = z_out.a.s
    /\ z_out.hash_a = z_out.hash_b

====
